---- MODULE Spec2Model ----
(***************************************************************************)
(* A model of the analysis-and-build engine of fab:                        *)
(*   - the Fortran compile drivers (steps/compile_fortran.py and the       *)
(*     older Fab.compile_fortran of builder.py),                           *)
(*   - the analysis cache (Fab.load_analysis_results, analysis_progress,   *)
(*     analyse_file_type),                                                 *)
(*   - AnalysedFile.as_dict / from_dict,                                   *)
(*   - the symbol table (Fab.gen_symbol_table).                            *)
(* Each subsystem has its own specification over its own variables; the    *)
(* variables of the other subsystems are held at their initial values.     *)
(***************************************************************************)
EXTENDS Integers, Sequences, FiniteSets, TLC

VARIABLES
    \* ---- compile drivers -------------------------------------------------
    driver,           \* which driver runs: CompileFortran.run or Fab.compile_fortran
    file_deps,        \* AnalysedFile.file_deps of every Fortran file of the build tree
    file_hash,        \* AnalysedFile.file_hash of every Fortran file (current source)
    flags_hash,       \* string_checksum(str(flags_for_path(f))) under the current config
    mod_files,        \* the .mod artefacts in the build output folder: module -> hash
    compilation_csv,  \* __fortran_compilation.csv in the project workspace
    pc,               \* position of the engine: idle, compiling, done, failed
    last_compile,     \* self._last_compile
    mod_hashes,       \* self._mod_hashes
    compiled,         \* the dict 'compiled' of run() / already_compiled_files of Fab
    to_compile,       \* the files still to compile
    pass,             \* number of passes started in this run
    wave_of,          \* history: the pass in which a file was handed to a worker
    results,          \* history: what process_file did for each file of this run
    error,            \* the fatal error that ended the run, and what its report names
    runs,             \* number of runs started
    changes,          \* history: edits made since the last run ended
    run_changes,      \* history: the edits that preceded the current run
    prev_ok,          \* history: the run before the current one ended successfully
    csv_at_start,     \* history: the compilation table as the current run found it
    csv_writes,       \* history: the calls of write_compile_result in this run
    \* ---- AnalysedFile.as_dict / from_dict --------------------------------
    rt_x,             \* an AnalysedFile
    rt_d,             \* rt_x.as_dict(), once serialised
    rt_y,             \* AnalysedFile.from_dict(rt_d), once deserialised
    rt_pc,            \* new, serialised, done
    \* ---- Fab: the analysis phase and its progress file -------------------
    latest_file_hashes, \* the preprocessed files of the source tree and their hashes
    analysis_csv,     \* __analysis.csv as it is on disk
    an_buffer,        \* rows written to the open progress file and not yet on disk
    an_pc,            \* idle, fortran, c, done, crashed
    unchanged,        \* load_analysis_results: the AnalysedFiles carried over
    to_analyse,       \* load_analysis_results: the HashedFiles to analyse
    an_pending,       \* files handed to the analyser whose result has not arrived
    new_program_units, \* the AnalysedFiles received in this run, in arrival order
    an_exceptions,    \* the files whose analysis returned an exception
    an_empty,         \* the files whose analysis returned EmptySourceFile
    an_runs,          \* analysis phases started so far
    csv_at_load,      \* history: the rows load_analysis_results read in this run
    at_crash,         \* history: where the last run was halted and what it had by then
    \* ---- Fab.gen_symbol_table --------------------------------------------
    all_analysed_files, \* the analysed files, in the order of the dict
    symbols,          \* the symbol table returned
    duplicates,       \* the duplicate definitions reported
    sym_pc,           \* new, done
    \* ---- Fab.run: from the symbol table to the build tree ----------------
    newly_analysed,   \* the paths of analysed_fortran and analysed_c (not 'unchanged')
    deps_not_found,   \* the symbol dependencies no file defines
    target,           \* self.target: the root symbol, or NoTarget
    unreferenced_deps, \* self.unreferenced_deps: symbols to force into the build
    build_tree,       \* the build tree, path -> AnalysedFile
    missing,          \* extract_sub_tree: the file_deps not in the source tree
    res_warnings,     \* add_unreferenced_deps: the symbols warned about
    res_pc,           \* symbols, file_deps, commented, extracted, unreferenced, failed
    res_error,        \* the exception that ended the run, or "none"
    \* ---- the analyser's calls of add_symbol_def and add_symbol_dep ---------
    src_defs,         \* <<path, name>>: the names defined, as the source writes them
    src_deps,         \* <<path, name>>: the names used, as the source writes them
    \* ---- ArchiveObjects.run ---------------------------------------------
    ar_archiver,      \* self.archiver
    ar_output_fpath,  \* self.output_fpath, a template
    ar_source,        \* the source getter: "default" or "given"
    ar_objects,       \* the list the source getter returns
    ar_commands,      \* the commands run, in order
    ar_store,         \* artefact_store[output_collection], or NoCollection
    ar_pc,            \* new, done, failed; off in the other specifications
    ar_error,         \* the exception that ended run, or "none"
    \* ---- pre_processor and Fab.preprocess ---------------------------------
    pp_driver,        \* "pre_processor" or "Fab"
    pp_files,         \* the list of files to preprocess
    pp_reuse,         \* config.reuse_artefacts
    pp_mp,            \* use_multiprocessing
    pp_existing,      \* the output files that exist when the phase starts
    pp_common_flags,  \* the common flags
    pp_processed,     \* the files a worker has processed
    pp_failed,        \* the processed files on which the preprocessor failed
    pp_commands,      \* the commands run, by input file
    pp_results,       \* the results the driver received, by input file
    pp_error,         \* the exception that ended the phase
    pp_store,         \* the output collection, or NoCollection
    pp_pc,            \* new, done, failed; off in the other specifications
    \* ---- get_fortran_preprocessor ----------------------------------------
    fpp_env,          \* the value of FPP, or Unset
    fpp_on_path,      \* 'which fpp' succeeds
    cpp_on_path,      \* 'which cpp' succeeds
    fpp_result,       \* what get_fortran_preprocessor returned or raised
    fpp_pc,           \* new, done; off in the other specifications
    \* ---- Fab.run: the phases of a run and their worker pools -------------
    run_pc,           \* the step of Fab.run in progress, or new, done, failed
    pool,             \* the work of the step: queued, running, results that are errors
    run_events,       \* history: the work started and the work returned, by step
    run_input         \* the files to analyse in this run

compileVars == <<driver, file_deps, file_hash, flags_hash, mod_files, compilation_csv,
                 pc, last_compile, mod_hashes, compiled, to_compile, pass, wave_of,
                 results, error, runs, changes, run_changes, prev_ok, csv_at_start,
                 csv_writes>>

rtVars == <<rt_x, rt_d, rt_y, rt_pc>>

anVars == <<latest_file_hashes, analysis_csv, an_buffer, an_pc, unchanged, to_analyse,
            an_pending, new_program_units, an_exceptions, an_empty, an_runs, csv_at_load,
            at_crash>>

symVars == <<all_analysed_files, symbols, duplicates, sym_pc>>

resVars == <<newly_analysed, deps_not_found, target, unreferenced_deps, build_tree, missing,
             res_warnings, res_pc, res_error>>

caseVars == <<src_defs, src_deps>>

arVars == <<ar_archiver, ar_output_fpath, ar_source, ar_objects, ar_commands, ar_store,
           ar_pc, ar_error>>

ppVars == <<pp_driver, pp_files, pp_reuse, pp_mp, pp_existing, pp_common_flags,
            pp_processed, pp_failed, pp_commands, pp_results, pp_error, pp_store, pp_pc>>

fppVars == <<fpp_env, fpp_on_path, cpp_on_path, fpp_result, fpp_pc>>
runVars == <<run_pc, pool, run_events, run_input>>

vars == <<compileVars, rtVars, anVars, symVars, resVars, caseVars, arVars, ppVars,
          fppVars, runVars>>

-----------------------------------------------------------------------------
(* Bounds of the model *)

\* largest number of file_deps edges in the build tree
MaxDeps == 3
\* hashes are drawn from 0..MaxHash
MaxHash == 1
\* runs of the engine on the same workspace
MaxRuns == 2
\* longest name (symbol, path or file name), in characters
MaxLen == 2
\* largest number of names in one set-valued field of an AnalysedFile
MaxNames == 2
MaxUnreferenced == 2

Hashes == 0..MaxHash

-----------------------------------------------------------------------------
(* Paths.  A path is its stem and its suffix (pathlib's Path.stem/.suffix). *)

Path(stem, suffix) == [stem |-> stem, suffix |-> suffix]

\* The Fortran files of the build tree, a .f90 path that is in no build tree
\* and a C file.
FortranFiles == {Path("a", ".f90"), Path("b", ".f90"), Path("c", ".f90")}
GoneFile == Path("gone", ".f90")
CFile == Path("helper", ".c")
DepTargets == FortranFiles \cup {GoneFile, CFile}

\* with_suffix that leaves the path as it is
with_suffix_same(p, suffix) == p

\* Path.with_suffix
with_suffix(p, suffix) == Path(p.stem, suffix)

NoMap == [x \in {} |-> 0]

\* dict.update
Update(old, new) ==
    [k \in DOMAIN old \cup DOMAIN new |-> IF k \in DOMAIN new THEN new[k] ELSE old[k]]

Range(f) == {f[k] : k \in DOMAIN f}

-----------------------------------------------------------------------------
(* The analysed Fortran files of the build tree *)

\* AnalysedFile.module_defs: the modules a file defines.  A file defines the
\* module named after it.
module_defs(af) == {af.stem}

\* AnalysedFile.module_deps: the modules a file uses, the modules of the
\* Fortran files it depends on.
module_deps(af) == {dep.stem : dep \in {d \in file_deps[af] : d.suffix = ".f90"}}

\* The build trees: every Fortran file has file_deps among the other files,
\* the absent .f90 path and the C file; cycles are included.
NumDeps(fd) == Cardinality({e \in FortranFiles \X DepTargets : e[2] \in fd[e[1]]})

BuildTrees ==
    {fd \in [FortranFiles -> SUBSET DepTargets] :
        /\ \A af \in FortranFiles : af \notin fd[af]
        /\ NumDeps(fd) <= MaxDeps}

-----------------------------------------------------------------------------
(* CompiledFile and the compilation table *)

CompiledFile(input_fpath, output_fpath, source_hash, flags_hash_, module_deps_hashes) ==
    [input_fpath |-> input_fpath, output_fpath |-> output_fpath,
     source_hash |-> source_hash, flags_hash |-> flags_hash_,
     module_deps_hashes |-> module_deps_hashes]

\* CompiledFile.to_str_dict: the row of the table; the last column holds the
\* name=hash pairs.
to_str_dict(cf) ==
    [input_fpath |-> cf.input_fpath, output_fpath |-> cf.output_fpath,
     source_hash |-> cf.source_hash, flags_hash |-> cf.flags_hash,
     module_deps_hashes |->
        {<<m, cf.module_deps_hashes[m]>> : m \in DOMAIN cf.module_deps_hashes}]

\* CompiledFile.from_str_dict
from_str_dict(row) ==
    CompiledFile(row.input_fpath, row.output_fpath, row.source_hash, row.flags_hash,
                 [m \in {pr[1] : pr \in row.module_deps_hashes} |->
                     (CHOOSE pr \in row.module_deps_hashes : pr[1] = m)[2]])

NoTable == [exists |-> FALSE, rows |-> {}]

\* CompileFortran.read_compile_result: the records of the table keyed by
\* input path; no table gives no records.
read_compile_result ==
    IF ~compilation_csv.exists THEN NoMap
    ELSE [p \in {row.input_fpath : row \in compilation_csv.rows} |->
            from_str_dict(CHOOSE row \in compilation_csv.rows : row.input_fpath = p)]

\* (mutant) the header is written and the rows are not
write_compile_result_header_only(compiled_) ==
    [exists |-> TRUE, rows |-> {}]

\* write_compile_result that writes the row of one compiled file only
write_compile_result_one_row(compiled_) ==
    [exists |-> TRUE,
     rows |-> IF compiled_ = NoMap THEN {}
              ELSE {to_str_dict(compiled_[CHOOSE p \in DOMAIN compiled_ : TRUE])}]

\* CompileFortran.write_compile_result: the table is rewritten in full with
\* one row for every value of 'compiled'.
write_compile_result(compiled_) ==
    [exists |-> TRUE, rows |-> {to_str_dict(cf) : cf \in Range(compiled_)}]

-----------------------------------------------------------------------------
(* CompileFortran: scheduling *)

\* (mutant) the suffix test keeps the C dependencies instead of the Fortran ones
unfulfilled_wrong_suffix(af, compiled_paths) ==
    {dep \in file_deps[af] : dep \notin compiled_paths /\ dep.suffix = ".c"}

\* line 114 without the test of the suffix: every file_dep gates the file
unfulfilled_any_suffix(af, compiled_paths) ==
    {dep \in file_deps[af] : dep \notin compiled_paths}

\* line 114: the Fortran file_deps of af that are not compiled yet

unfulfilled(af, compiled_paths) ==
    {dep \in file_deps[af] : dep \notin compiled_paths /\ dep.suffix = ".f90"}

\* get_compile_next that hands out one ready file per pass
get_compile_next_one_per_pass(compiled_paths, to_compile_) ==
    LET nr == {af \in to_compile_ : unfulfilled(af, compiled_paths) # {}}
        ready == to_compile_ \ nr
    IN  [compile_next |-> IF ready = {} THEN {} ELSE {CHOOSE af \in ready : TRUE},
         not_ready |-> [af \in nr |-> unfulfilled(af, compiled_paths)],
         raised |-> to_compile_ # {} /\ ready = {}]

\* get_compile_next that hands out every remaining file
get_compile_next_everything(compiled_paths, to_compile_) ==
    [compile_next |-> to_compile_, not_ready |-> NoMap, raised |-> FALSE]

\* get_compile_next that hands out the compiled files again
get_compile_next_again(compiled_paths, to_compile_) ==
    [compile_next |->
        {af \in to_compile_ : unfulfilled(af, compiled_paths) = {}} \cup compiled_paths,
     not_ready |-> NoMap, raised |-> FALSE]

\* get_compile_next that, after the first wave, hands out compiled files only
get_compile_next_stuck(compiled_paths, to_compile_) ==
    [compile_next |->
        IF compiled_paths = {}
        THEN {af \in to_compile_ : unfulfilled(af, compiled_paths) = {}}
        ELSE compiled_paths,
     not_ready |-> NoMap, raised |-> FALSE]

\* get_compile_next for which one compiled Fortran dependency is enough
get_compile_next_one_dep_enough(compiled_paths, to_compile_) ==
    [compile_next |->
        {af \in to_compile_ :
            \/ unfulfilled(af, compiled_paths) = {}
            \/ file_deps[af] \cap compiled_paths # {}},
     not_ready |-> NoMap, raised |-> FALSE]

\* CompileFortran.get_compile_next.  raised: the RuntimeError 'Nothing more
\* can be compiled due to unfulfilled dependencies', whose message lists
\* every entry of not_ready.
get_compile_next(compiled_paths, to_compile_) ==
    LET nr == {af \in to_compile_ : unfulfilled(af, compiled_paths) # {}}
    IN  [compile_next |-> to_compile_ \ nr,
         not_ready |-> [af \in nr |-> unfulfilled(af, compiled_paths)],
         raised |-> to_compile_ # {} /\ to_compile_ \ nr = {}]

\* get_mod_hashes: the hash of the .mod artefact of every module defined by
\* the given files.  raised: a .mod artefact is not there.
get_mod_hashes(afs) ==
    LET mods == UNION {module_defs(af) : af \in afs}
    IN  [raised |-> ~(mods \subseteq DOMAIN mod_files),
         hashes |-> [m \in mods \cap DOMAIN mod_files |-> mod_files[m]]]

-----------------------------------------------------------------------------
(* CompileFortran: the per-file compile decision *)

\* CompileFortran.recompile_check.  raised: the KeyError of line 215, a
\* module dependency without a hash in self._mod_hashes.
recompile_check(af, flags_hash_, last_compile_) ==
    IF af \notin DOMAIN last_compile_
    THEN [raised |-> FALSE, reasons |-> {"no previous result"}]
    ELSE IF ~(module_deps(af) \subseteq DOMAIN mod_hashes)
    THEN [raised |-> TRUE, reasons |-> {}]
    ELSE [raised |-> FALSE,
          reasons |->
             (IF file_hash[af] # last_compile_[af].source_hash
                THEN {"source changed"} ELSE {})
             \cup (IF flags_hash_ # last_compile_[af].flags_hash
                THEN {"flags changed"} ELSE {})
             \cup (IF [m \in module_deps(af) |-> mod_hashes[m]]
                        # last_compile_[af].module_deps_hashes
                THEN {"module dependencies changed"} ELSE {})]

\* The number of parameters compile_file declares after self (line 179) and
\* the number of arguments process_file passes to it (line 159).
compile_file_params == 4
compile_file_args == 3

\* The call self.compile_file(analysed_file, flags, output_fpath) of line 159.
\* With an argument missing Python raises TypeError before the body of
\* compile_file runs, so run_command is not reached; otherwise the outcome
\* is that of the external compiler.
compile_file(tool_ok) ==
    IF compile_file_args # compile_file_params THEN "TypeError"
    ELSE IF tool_ok THEN "ok"
    ELSE "tool failure"

\* process_file whose workers see an empty module-hash map and record it
process_file_empty_map(af, tool_ok) ==
    [type |-> "CompiledFile", reasons |-> {}, invoked |-> FALSE,
     cf |-> {CompiledFile(af, with_suffix(af, ".o"), file_hash[af],
                          flags_hash[af], NoMap)},
     fpath |-> {af}]

\* CompileFortran.process_file.  type is the type of the returned value, or
\* "raise" when an exception leaves the function; invoked says whether the
\* external compiler was run; fpath holds the input path when the returned
\* value carries it: the Exception of line 161 is built from a fixed text and
\* the caught error, the RuntimeError of line 171 and the CompiledFile of
\* line 173 from analysed_file.fpath.
process_file(af, tool_ok) ==
    LET rc == recompile_check(af, flags_hash[af], last_compile)
        outcome == compile_file(tool_ok)
        invoked == rc.reasons # {} /\ outcome # "TypeError"
    IN  IF rc.raised
        THEN [type |-> "raise", reasons |-> {}, invoked |-> FALSE, cf |-> {},
              fpath |-> {}]
        ELSE IF rc.reasons # {} /\ outcome # "ok"
        THEN [type |-> "Exception", reasons |-> rc.reasons, invoked |-> invoked,
              cf |-> {}, fpath |-> {}]
        ELSE IF ~(module_deps(af) \subseteq DOMAIN mod_hashes)
        THEN [type |-> "RuntimeError", reasons |-> rc.reasons, invoked |-> invoked,
              cf |-> {}, fpath |-> {af}]
        ELSE [type |-> "CompiledFile", reasons |-> rc.reasons, invoked |-> invoked,
              cf |-> {CompiledFile(af, with_suffix(af, ".o"), file_hash[af],
                                   flags_hash[af],
                                   [m \in module_deps(af) |-> mod_hashes[m]])},
              fpath |-> {af}]

\* check_for_errors: raises when a result is an exception
check_for_errors(results_) == \E af \in DOMAIN results_ :
    results_[af].type \in {"Exception", "RuntimeError"}


-----------------------------------------------------------------------------
(* The state of the compile drivers *)

NoError == [kind |-> "none", files |-> {}, deps |-> {}, per_file |-> {}]

\* A workspace in which the files of 'built' were compiled before, by a build
\* that compiled them from the current sources with the current flags: their
\* records are in the compilation table and their .mod artefacts are there.
BuiltTable(fd, built) ==
    IF built = {} THEN NoTable
    ELSE [exists |-> TRUE,
          rows |-> {to_str_dict(CompiledFile(af, with_suffix(af, ".o"), 0, MaxHash,
                        [m \in {dep.stem : dep \in {d \in fd[af] : d.suffix = ".f90"}}
                            |-> 0])) : af \in built}]

InitCompile ==
    /\ driver \in {"CompileFortran", "Fab"}
    /\ file_deps \in BuildTrees
    /\ file_hash = [af \in FortranFiles |-> 0]
    /\ flags_hash = [af \in FortranFiles |-> MaxHash]
    /\ \E built \in SUBSET FortranFiles :
        /\ driver = "Fab" => built = {}
        /\ compilation_csv = BuiltTable(file_deps, built)
        /\ mod_files = [m \in UNION {module_defs(af) : af \in built} |-> 0]
    /\ pc = "idle"
    /\ last_compile = NoMap
    /\ mod_hashes = NoMap
    /\ compiled = NoMap
    /\ to_compile = {}
    /\ pass = 0
    /\ wave_of = NoMap
    /\ results = NoMap
    /\ error = NoError
    /\ runs = 0
    /\ changes = {}
    /\ run_changes = {}
    /\ prev_ok = FALSE
    /\ csv_at_start = NoTable
    /\ csv_writes = 0

\* a failure that reports nothing
Unready_silent(kind, files, deps, per_file) ==
    [kind |-> "none", files |-> {}, deps |-> {}, per_file |-> {}]

\* a report that names one of the files only
Unready_one_file(kind, files, deps, per_file) ==
    [kind |-> kind,
     files |-> IF files = {} THEN {} ELSE {CHOOSE af \in files : TRUE},
     deps |-> deps, per_file |-> per_file]

\* What the report of a fatal error names.
Unready(kind, files, deps, per_file) ==
    [kind |-> kind, files |-> files, deps |-> deps, per_file |-> per_file]

\* The start of a run, up to the first pass: CompileFortran.run lines 53-67,
\* Fab.compile_fortran lines 697-702.  The source getter yields the Fortran
\* files of the build tree.
run_start ==
    /\ UNCHANGED <<rtVars, anVars, symVars, resVars, caseVars, arVars, ppVars, fppVars, runVars>>
    /\ pc \in {"idle", "done", "failed"}
    /\ runs < MaxRuns
    /\ runs' = runs + 1
    /\ to_compile' = FortranFiles
    /\ last_compile' = IF driver = "CompileFortran" THEN read_compile_result ELSE NoMap
    /\ mod_hashes' = NoMap
    /\ compiled' = NoMap
    /\ pass' = 0
    /\ wave_of' = NoMap
    /\ results' = NoMap
    /\ error' = NoError
    /\ run_changes' = changes
    /\ changes' = {}
    /\ prev_ok' = (pc = "done")
    /\ csv_at_start' = compilation_csv
    /\ csv_writes' = 0
    /\ pc' = "compiling"
    /\ UNCHANGED <<driver, file_deps, file_hash, flags_hash, mod_files, compilation_csv>>

\* One iteration of 'while to_compile' in CompileFortran.run: compile_pass,
\* and, when nothing is left to compile, the rest of run (lines 71-79).
compile_pass ==
    /\ UNCHANGED <<rtVars, anVars, symVars, resVars, caseVars, arVars, ppVars, fppVars, runVars>>
    /\ pc = "compiling"
    /\ driver = "CompileFortran"
    /\ to_compile # {}
    /\ \E tool_ok \in [FortranFiles -> BOOLEAN] :
        LET remaining == {af \in to_compile : af \notin DOMAIN compiled}
            next == get_compile_next(DOMAIN compiled, remaining)
            results_this_pass == [af \in next.compile_next |-> process_file(af, tool_ok[af])]
            compiled_this_pass ==
                UNION {results_this_pass[af].cf : af \in next.compile_next}
            new_mod_hashes == get_mod_hashes(next.compile_next)
            compiled_after ==
                Update(compiled, [af \in {cf.input_fpath : cf \in compiled_this_pass} |->
                    CHOOSE cf \in compiled_this_pass : cf.input_fpath = af])
            left == {af \in remaining : af \notin DOMAIN compiled_after}
            Fail(err) ==
                /\ pc' = "failed"
                /\ error' = err
                /\ UNCHANGED <<mod_hashes, compiled, to_compile, compilation_csv, csv_writes>>
        IN
        /\ pass' = pass + 1
        /\ IF next.raised
           THEN /\ Fail(Unready("unfulfilled dependencies", DOMAIN next.not_ready,
                           UNION Range(next.not_ready),
                           {<<af, dep>> \in FortranFiles \X DepTargets :
                               af \in DOMAIN next.not_ready /\ dep \in next.not_ready[af]}))
                /\ UNCHANGED <<wave_of, results>>
           ELSE /\ wave_of' = Update(wave_of, [af \in next.compile_next |-> pass + 1])
                /\ results' = Update(results, results_this_pass)
                /\ IF \E af \in next.compile_next : results_this_pass[af].type = "raise"
                   THEN Fail(Unready("KeyError", {}, {}, {}))
                   ELSE IF check_for_errors(results_this_pass)
                   THEN Fail(Unready("errors",
                            {af \in next.compile_next :
                                results_this_pass[af].type # "CompiledFile"}, {}, {}))
                   ELSE IF compiled_this_pass = {}
                   THEN Fail(Unready("Nothing compiled this pass", next.compile_next, {}, {}))
                   ELSE IF new_mod_hashes.raised
                   THEN Fail(Unready("FileNotFoundError", {}, {}, {}))
                   ELSE /\ mod_hashes' = Update(mod_hashes, new_mod_hashes.hashes)
                        /\ compiled' = compiled_after
                        /\ to_compile' = left
                        /\ error' = NoError
                        /\ IF left = {}
                           THEN /\ compilation_csv' = write_compile_result(compiled_after)
                                /\ csv_writes' = csv_writes + 1
                                /\ pc' = "done"
                           ELSE /\ pc' = "compiling"
                                /\ UNCHANGED <<compilation_csv, csv_writes>>
    /\ UNCHANGED <<driver, file_deps, file_hash, flags_hash, mod_files, runs, changes,
                   run_changes, prev_ok, csv_at_start, last_compile>>


-----------------------------------------------------------------------------
(* Fab.compile_fortran, the driver of builder.py *)

\* line 710
builder_unfulfilled(af, already_compiled_files) ==
    {dep \in file_deps[af] : dep \notin already_compiled_files /\ dep.suffix = ".f90"}

\* FortranCompiler.run, the compile task handed to the pool: it runs the
\* external compiler and returns a CompiledFile, or the error as a value.
fortran_compiler_run(af, tool_ok) ==
    IF tool_ok
    THEN [type |-> "CompiledFile", reasons |-> {}, invoked |-> TRUE,
          cf |-> {[analysed_file |-> af, output_fpath |-> with_suffix(af, ".o")]}]
    ELSE [type |-> "Exception", reasons |-> {}, invoked |-> TRUE, cf |-> {}]

\* One iteration of 'while to_compile' in Fab.compile_fortran (lines 703-762)
\* and, when the loop ends, lines 764-776.  exit(1) ends the run as failed.
Fab_compile_fortran ==
    /\ UNCHANGED <<rtVars, anVars, symVars, resVars, caseVars, arVars, ppVars, fppVars, runVars>>
    /\ pc = "compiling"
    /\ driver = "Fab"
    /\ to_compile # {}
    /\ \E tool_ok \in [FortranFiles -> BOOLEAN] :
        LET compile_next ==
                {af \in to_compile : builder_unfulfilled(af, DOMAIN compiled) = {}}
            not_ready ==
                [af \in to_compile \ compile_next |->
                    builder_unfulfilled(af, DOMAIN compiled)]
            this_pass == [af \in compile_next |-> fortran_compiler_run(af, tool_ok[af])]
            errors == {af \in compile_next : this_pass[af].type = "Exception"}
            compiled_this_pass == UNION {this_pass[af].cf : af \in compile_next}
            compiled_fpaths == {cf.analysed_file : cf \in compiled_this_pass}
            left == {af \in to_compile : af \notin compiled_fpaths}
            Exit(err) ==
                /\ pc' = "failed"
                /\ error' = err
                /\ UNCHANGED <<compiled, to_compile>>
        IN
        /\ pass' = pass + 1
        /\ IF compile_next = {}
           THEN \* logger.error("All unfulfilled deps: ..."), exit(1)
                /\ Exit(Unready("unfulfilled dependencies", {},
                                UNION Range(not_ready), {}))
                /\ UNCHANGED <<wave_of, results>>
           ELSE /\ wave_of' = Update(wave_of, [af \in compile_next |-> pass + 1])
                /\ results' = Update(results, this_pass)
                /\ IF errors # {}
                   THEN Exit(Unready("errors", errors, {}, {}))
                   ELSE IF compiled_this_pass = {}
                   THEN Exit(Unready("nothing compiled this pass", to_compile, {}, {}))
                   ELSE /\ compiled' = Update(compiled,
                                [af \in compiled_fpaths |->
                                    CHOOSE cf \in compiled_this_pass : cf.analysed_file = af])
                        /\ to_compile' = left
                        /\ error' = NoError
                        /\ pc' = IF left = {} THEN "done" ELSE "compiling"
    /\ UNCHANGED <<driver, file_deps, file_hash, flags_hash, mod_files, compilation_csv,
                   runs, changes, run_changes, prev_ok, csv_at_start, csv_writes,
                   last_compile, mod_hashes>>

-----------------------------------------------------------------------------
(* After a successful run and before the next one, one edit may be made:    *)
(* a source file is edited, the flags of a path are changed, or a .mod      *)
(* artefact is replaced.  Only CompileFortran reads these.  Before the      *)
(* first run the workspace is as InitCompile chose it.                      *)

Change(kind, changed) == [kind |-> kind, target |-> changed]

CanChange ==
    /\ pc = "done"
    /\ driver = "CompileFortran"
    /\ runs < MaxRuns
    /\ changes = {}

change_source ==
    \E af \in FortranFiles, h \in Hashes :
        /\ UNCHANGED <<rtVars, anVars, symVars, resVars, caseVars, arVars, ppVars, fppVars, runVars>>
        /\ CanChange
        /\ h # file_hash[af]
        /\ file_hash' = [file_hash EXCEPT ![af] = h]
        /\ changes' = changes \cup {Change("source", af.stem)}
        /\ UNCHANGED <<driver, file_deps, flags_hash, mod_files, compilation_csv, pc,
                       last_compile, mod_hashes, compiled, to_compile, pass, wave_of,
                       results, error, runs, run_changes, prev_ok, csv_at_start,
                       csv_writes>>

change_flags ==
    \E af \in FortranFiles, h \in Hashes :
        /\ UNCHANGED <<rtVars, anVars, symVars, resVars, caseVars, arVars, ppVars, fppVars, runVars>>
        /\ CanChange
        /\ h # flags_hash[af]
        /\ flags_hash' = [flags_hash EXCEPT ![af] = h]
        /\ changes' = changes \cup {Change("flags", af.stem)}
        /\ UNCHANGED <<driver, file_deps, file_hash, mod_files, compilation_csv, pc,
                       last_compile, mod_hashes, compiled, to_compile, pass, wave_of,
                       results, error, runs, run_changes, prev_ok, csv_at_start,
                       csv_writes>>

change_module ==
    \E m \in DOMAIN mod_files, h \in Hashes :
        /\ UNCHANGED <<rtVars, anVars, symVars, resVars, caseVars, arVars, ppVars, fppVars, runVars>>
        /\ CanChange
        /\ h # mod_files[m]
        /\ mod_files' = [mod_files EXCEPT ![m] = h]
        /\ changes' = changes \cup {Change("module", m)}
        /\ UNCHANGED <<driver, file_deps, file_hash, flags_hash, compilation_csv, pc,
                       last_compile, mod_hashes, compiled, to_compile, pass, wave_of,
                       results, error, runs, run_changes, prev_ok, csv_at_start,
                       csv_writes>>

NextCompile ==
    \/ run_start
    \/ compile_pass
    \/ Fab_compile_fortran
    \/ change_source
    \/ change_flags
    \/ change_module

-----------------------------------------------------------------------------
(* Strings.  A string is the sequence of its characters. *)

\* str.join
RECURSIVE join(_, _)
join(sep, strs) ==
    IF strs = <<>> THEN <<>>
    ELSE IF Len(strs) = 1 THEN strs[1]
    ELSE strs[1] \o sep \o join(sep, Tail(strs))

\* str.split(sep) for a separator of one character: the list of the pieces
\* between the separators, empty pieces included.
RECURSIVE split(_, _)
split(str, sep) ==
    IF \A i \in 1..Len(str) : str[i] # sep THEN <<str>>
    ELSE LET i == CHOOSE k \in 1..Len(str) :
                    str[k] = sep /\ \A j \in 1..(k - 1) : str[j] # sep
         IN  <<SubSeq(str, 1, i - 1)>> \o split(SubSeq(str, i + 1, Len(str)), sep)

\* set(list)
ToSet(seq) == {seq[i] : i \in 1..Len(seq)}

\* The orders in which a set may be iterated.
Orders(S) == {seq \in [1..Cardinality(S) -> S] : ToSet(seq) = S}

-----------------------------------------------------------------------------
(* AnalysedFile (dep_tree.py).  A path is written as its string: pathlib    *)
(* keeps a Path normalised, so str and Path are inverse on Path values.     *)

AnalysedFile(fpath, file_hash_, symbol_deps, symbol_defs, file_deps_, mo_commented_file_deps) ==
    [fpath |-> fpath, file_hash |-> file_hash_,
     symbol_defs |-> symbol_defs, symbol_deps |-> symbol_deps,
     file_deps |-> file_deps_, mo_commented_file_deps |-> mo_commented_file_deps]

\* The asserts of AnalysedFile.__init__ (lines 57-58): no empty symbol name.
init_asserts(symbol_deps, symbol_defs) ==
    <<>> \notin symbol_defs /\ <<>> \notin symbol_deps

\* AnalysedFile.as_dict; order gives, for each set-valued field, the order
\* in which ';'.join iterates it.
as_dict(x, order) ==
    [fpath |-> x.fpath,
     file_hash |-> x.file_hash,
     symbol_deps |-> join(<<";">>, order.symbol_deps),
     symbol_defs |-> join(<<";">>, order.symbol_defs),
     file_deps |-> join(<<";">>, order.file_deps),
     mo_commented_file_deps |-> join(<<";">>, order.mo_commented_file_deps)]

\* The iteration orders of the fields of x.
FieldOrders(x) ==
    [symbol_deps : Orders(x.symbol_deps), symbol_defs : Orders(x.symbol_defs),
     file_deps : Orders(x.file_deps),
     mo_commented_file_deps : Orders(x.mo_commented_file_deps)]

\* Path(str): pathlib reads the empty string as the current directory
PathOf(str) == IF str = <<>> THEN <<".">> ELSE str

\* (mutant) the column is split also when it is the empty string
from_dict_field_unguarded(str) == ToSet(split(str, ";"))

\* One list column of from_dict: set(d[k].split(';')) if d[k] else set()
from_dict_field(str) == IF str # <<>> THEN ToSet(split(str, ";")) ELSE {}

\* AnalysedFile.from_dict.  ok is FALSE when the constructor's assert fails.
from_dict(d) ==
    LET symbol_deps == from_dict_field(d.symbol_deps)
        symbol_defs == from_dict_field(d.symbol_defs)
    IN  [ok |-> init_asserts(symbol_deps, symbol_defs),
         value |-> AnalysedFile(PathOf(d.fpath), d.file_hash, symbol_deps, symbol_defs,
                                {PathOf(str) : str \in from_dict_field(d.file_deps)},
                                from_dict_field(d.mo_commented_file_deps))]

\* AnalysedFile.__eq__
analysed_eq(x, y) ==
    /\ x.fpath = y.fpath
    /\ x.file_hash = y.file_hash
    /\ x.symbol_defs = y.symbol_defs
    /\ x.symbol_deps = y.symbol_deps
    /\ x.file_deps = y.file_deps
    /\ x.mo_commented_file_deps = y.mo_commented_file_deps

-----------------------------------------------------------------------------
(* The round trip of one AnalysedFile *)

Chars == {"a", ";"}

\* the strings of at most n characters
RECURSIVE StringsUpTo(_)
StringsUpTo(n) ==
    IF n = 0 THEN {<<>>}
    ELSE LET shorter == StringsUpTo(n - 1)
         IN  shorter \cup {<<c>> \o str : c \in Chars, str \in shorter}

Names == StringsUpTo(MaxLen) \ {<<>>}
NameSets(universe) == {S \in SUBSET universe : Cardinality(S) <= MaxNames}
Plain == {{}, {<<"a">>}}

SetFields == {"symbol_deps", "symbol_defs", "file_deps", "mo_commented_file_deps"}

\* An AnalysedFile of the round trip: the set-valued field named by varied
\* holds names, every other one holds what plain gives it.
RoundTripInput(h, varied, names, plain) ==
    LET field(f) == IF varied = f THEN names ELSE plain[f]
    IN  AnalysedFile(<<"a">>, h, field("symbol_deps"), field("symbol_defs"),
                     field("file_deps"), field("mo_commented_file_deps"))

NoDict == [fpath |-> <<>>, file_hash |-> 0, symbol_deps |-> <<>>, symbol_defs |-> <<>>,
           file_deps |-> <<>>, mo_commented_file_deps |-> <<>>]
NoAnalysedFile == [ok |-> FALSE, value |-> AnalysedFile(<<>>, 0, {}, {}, {}, {})]

\* One set-valued field ranges over all bounded sets of names, the others
\* are empty or hold one name.  Symbol names and paths are not empty (the
\* constructor asserts it of symbols); the name of a commented file
\* dependency may be.
InitRoundTrip ==
    /\ \E h \in Hashes, plain \in [SetFields -> Plain], varied \in SetFields :
        \E names \in NameSets(IF varied = "mo_commented_file_deps"
                              THEN Names \cup {<<>>} ELSE Names) :
            rt_x = RoundTripInput(h, varied, names, plain)
    /\ rt_d = NoDict
    /\ rt_y = NoAnalysedFile
    /\ rt_pc = "new"

IdleRoundTrip ==
    /\ rt_x = AnalysedFile(<<>>, 0, {}, {}, {}, {})
    /\ rt_d = NoDict
    /\ rt_y = NoAnalysedFile
    /\ rt_pc = "idle"

serialise ==
    /\ rt_pc = "new"
    /\ \E order \in FieldOrders(rt_x) : rt_d' = as_dict(rt_x, order)
    /\ rt_pc' = "serialised"
    /\ UNCHANGED <<rt_x, rt_y, compileVars, anVars, symVars, resVars, caseVars, arVars, ppVars, fppVars, runVars>>

deserialise ==
    /\ rt_pc = "serialised"
    /\ rt_y' = from_dict(rt_d)
    /\ rt_pc' = "done"
    /\ UNCHANGED <<rt_x, rt_d, compileVars, anVars, symVars, resVars, caseVars, arVars, ppVars, fppVars, runVars>>

NextRoundTrip == serialise \/ deserialise

IdleCompile ==
    /\ driver = "none"
    /\ file_deps = [af \in FortranFiles |-> {}]
    /\ file_hash = [af \in FortranFiles |-> 0]
    /\ flags_hash = [af \in FortranFiles |-> 0]
    /\ mod_files = NoMap
    /\ compilation_csv = NoTable
    /\ pc = "off"
    /\ last_compile = NoMap
    /\ mod_hashes = NoMap
    /\ compiled = NoMap
    /\ to_compile = {}
    /\ pass = 0
    /\ wave_of = NoMap
    /\ results = NoMap
    /\ error = NoError
    /\ runs = 0
    /\ changes = {}
    /\ run_changes = {}
    /\ prev_ok = FALSE
    /\ csv_at_start = NoTable
    /\ csv_writes = 0

-----------------------------------------------------------------------------
(* The analysis phase of Fab.run (builder.py) and its progress file *)

\* Path.suffix: the name from its last dot on (a leading dot starts no suffix)
path_suffix(p) ==
    LET dots == {i \in 2..Len(p) : p[i] = "."}
    IN  IF dots = {} THEN <<>>
        ELSE SubSeq(p, CHOOSE i \in dots : \A j \in dots : j <= i, Len(p))

F90 == <<".", "f", "9", "0">>
DotC == <<".", "c">>
FileA == <<"a">> \o F90
FileB == <<"b">> \o F90
FileH == <<"h">> \o DotC
\* the preprocessed files a source tree may hold
SourceFiles == {FileA, FileB, FileH}
\* a file analysed by an earlier run and no longer in the source tree
GoneSource == <<"g">> \o F90

HashedFile(fpath, file_hash_) == [fpath |-> fpath, file_hash |-> file_hash_]

Digits == <<"0", "1", "2", "3", "4", "5", "6", "7", "8", "9">>

\* str(n) of a natural number
RECURSIVE to_str(_)
to_str(n) ==
    IF n < 10 THEN <<Digits[n + 1]>>
    ELSE to_str(n \div 10) \o <<Digits[(n % 10) + 1]>>

\* int(str) of a string of decimal digits
RECURSIVE to_int(_)
to_int(str) ==
    LET digit(c) == CHOOSE v \in 0..9 : Digits[v + 1] = c
    IN  IF Len(str) = 1 THEN digit(str[1])
        ELSE 10 * to_int(SubSeq(str, 1, Len(str) - 1)) + digit(str[Len(str)])

\* csv.DictWriter.writerow: every value is written as its string
writerow(d) == [d EXCEPT !.file_hash = to_str(d.file_hash)]

\* AnalysedFile.from_dict of a row of csv.DictReader, whose values are all
\* strings: int() parses the file_hash column (dep_tree.py line 119).
from_row(row) == from_dict([row EXCEPT !.file_hash = to_int(row.file_hash)])

\* The rows pu.as_dict() may give for the AnalysedFiles pus, one after another.
RECURSIVE as_rows(_)
as_rows(pus) ==
    IF pus = <<>> THEN {<<>>}
    ELSE {<<writerow(as_dict(pus[1], order))>> \o rest :
            order \in FieldOrders(pus[1]), rest \in as_rows(Tail(pus))}

\* The analysers (fortran_analyser.run and c_analyser.run), for a file whose
\* parse tree is not empty: the file defines one symbol, named after it, and
\* b.f90 uses the symbol of a.f90.  file_deps are filled in after analysis.
analyser(hashed_file) ==
    AnalysedFile(hashed_file.fpath, hashed_file.file_hash,
                 IF hashed_file.fpath = FileB THEN {<<"a">>} ELSE {},
                 {<<hashed_file.fpath[1]>>}, {}, {})

NoAnalysisTable == [exists |-> FALSE, rows |-> <<>>]
NoCrash == [phase |-> "none", progress |-> {}]

\* load_analysis_results, lines 532-550: prev_results after reading rows
RECURSIVE prev_results(_, _)
prev_results(rows, latest) ==
    IF rows = <<>> THEN NoMap
    ELSE LET before == prev_results(SubSeq(rows, 1, Len(rows) - 1), latest)
             current_file == from_row(rows[Len(rows)]).value
         IN  IF current_file.fpath \notin DOMAIN latest THEN before
             ELSE Update(before, [p \in {current_file.fpath} |-> current_file])

\* (mutant) a row is reused whatever its hash
load_analysis_results_any_hash(table, latest, order) ==
    LET prev == prev_results(table.rows, latest)
        changed(p) == p \notin DOMAIN prev
        same(p) == ~changed(p)
        kept == SelectSeq(order, same)
        redo == SelectSeq(order, changed)
    IN  [to_analyse |-> [i \in 1..Len(redo) |-> HashedFile(redo[i], latest[redo[i]])],
         unchanged |-> [i \in 1..Len(kept) |-> prev[kept[i]]]]

\* load_analysis_results; order is the order of latest_file_hashes.items().
\* A missing table (FileNotFoundError) leaves prev_results empty.
load_analysis_results(table, latest, order) ==
    LET prev == prev_results(table.rows, latest)
        changed(p) == p \notin DOMAIN prev \/ prev[p].file_hash # latest[p]
        same(p) == ~changed(p)
        kept == SelectSeq(order, same)
        redo == SelectSeq(order, changed)
    IN  [to_analyse |-> [i \in 1..Len(redo) |-> HashedFile(redo[i], latest[redo[i]])],
         unchanged |-> [i \in 1..Len(kept) |-> prev[kept[i]]]]

\* to_analyse_by_type[suffix_]
to_analyse_by_type(to_analyse_, suffix_) ==
    {hashed_file \in ToSet(to_analyse_) : path_suffix(hashed_file.fpath) = suffix_}

\* the source trees: each file is absent or has one of the hashes
SourceTrees == UNION {[present -> Hashes] : present \in SUBSET SourceFiles}

\* The tables an earlier build may have left: one row for each of some files,
\* analysed when every file had hash 0.  The rows are in the order of
\* EarlierOrder; the runs of the model write tables in every order.
EarlierOrder == <<FileA, FileB, FileH, GoneSource>>
EarlierTables ==
    {NoAnalysisTable} \cup
    UNION {{[exists |-> TRUE, rows |-> rows] :
               rows \in as_rows(LET done(p) == p \in analysed
                                    order == SelectSeq(EarlierOrder, done)
                                IN  [i \in 1..Len(order) |-> analyser(HashedFile(order[i], 0))])} :
           analysed \in SUBSET (SourceFiles \cup {GoneSource})}

InitAnalysis ==
    /\ latest_file_hashes \in SourceTrees
    /\ analysis_csv \in EarlierTables
    /\ an_buffer = <<>>
    /\ an_pc = "idle"
    /\ unchanged = <<>>
    /\ to_analyse = <<>>
    /\ an_pending = {}
    /\ new_program_units = <<>>
    /\ an_exceptions = {}
    /\ an_empty = {}
    /\ an_runs = 0
    /\ csv_at_load = <<>>
    /\ at_crash = NoCrash

IdleAnalysis ==
    /\ latest_file_hashes = NoMap
    /\ analysis_csv = NoAnalysisTable
    /\ an_buffer = <<>>
    /\ an_pc = "off"
    /\ unchanged = <<>>
    /\ to_analyse = <<>>
    /\ an_pending = {}
    /\ new_program_units = <<>>
    /\ an_exceptions = {}
    /\ an_empty = {}
    /\ an_runs = 0
    /\ csv_at_load = <<>>
    /\ at_crash = NoCrash

\* analysis_progress that opens the progress file without emptying it
analysis_progress_appends ==
    /\ an_pc \in {"idle", "done", "crashed"}
    /\ an_runs < MaxRuns
    /\ an_runs' = an_runs + 1
    /\ \E order \in Orders(DOMAIN latest_file_hashes) :
        LET loaded == load_analysis_results(analysis_csv, latest_file_hashes, order)
        IN  /\ unchanged' = loaded.unchanged
            /\ to_analyse' = loaded.to_analyse
            /\ an_buffer' \in as_rows(loaded.unchanged)
    /\ analysis_csv' = [exists |-> TRUE, rows |-> analysis_csv.rows]
    /\ csv_at_load' = analysis_csv.rows
    /\ at_crash' = IF an_pc = "crashed" THEN at_crash ELSE NoCrash
    /\ an_pending' = {}
    /\ new_program_units' = <<>>
    /\ an_exceptions' = {}
    /\ an_empty' = {}
    /\ an_pc' = "opened"
    /\ UNCHANGED <<latest_file_hashes, compileVars, rtVars, symVars, resVars, caseVars, arVars, ppVars, fppVars, runVars>>

\* analysis_progress, lines 509-517: load the previous results, open the
\* progress file for writing, which empties it, and write the header and the
\* rows of the unchanged files.
analysis_progress ==
    /\ an_pc \in {"idle", "done", "crashed"}
    /\ an_runs < MaxRuns
    /\ an_runs' = an_runs + 1
    /\ \E order \in Orders(DOMAIN latest_file_hashes) :
        LET loaded == load_analysis_results(analysis_csv, latest_file_hashes, order)
        IN  /\ unchanged' = loaded.unchanged
            /\ to_analyse' = loaded.to_analyse
            /\ an_buffer' \in as_rows(loaded.unchanged)
    /\ analysis_csv' = [exists |-> TRUE, rows |-> <<>>]
    /\ csv_at_load' = analysis_csv.rows
    /\ at_crash' = IF an_pc = "crashed" THEN at_crash ELSE NoCrash
    /\ an_pending' = {}
    /\ new_program_units' = <<>>
    /\ an_exceptions' = {}
    /\ an_empty' = {}
    /\ an_pc' = "opened"
    /\ UNCHANGED <<latest_file_hashes, compileVars, rtVars, symVars, resVars, caseVars, arVars, ppVars, fppVars, runVars>>

\* analysis_progress, lines 518-524, and the start of analyse, lines 367-370:
\* flush the progress file and hand the Fortran files to the analyser.
analysis_progress_flush ==
    /\ an_pc = "opened"
    /\ analysis_csv' = [analysis_csv EXCEPT !.rows = @ \o an_buffer]
    /\ an_buffer' = <<>>
    /\ an_pending' = to_analyse_by_type(to_analyse, F90)
    /\ an_pc' = "fortran"
    /\ UNCHANGED <<latest_file_hashes, unchanged, to_analyse, new_program_units,
                   an_exceptions, an_empty, an_runs, csv_at_load, at_crash,
                   compileVars, rtVars, symVars, resVars, caseVars, arVars, ppVars, fppVars, runVars>>

\* analyse_file_type that takes no more results once one is an exception
analyse_file_type_stops_on_error ==
    /\ an_pc \in {"fortran", "c"}
    /\ \E hashed_file \in an_pending, af \in {"AnalysedFile", "EmptySourceFile", "Exception"} :
        /\ an_pending' = IF af = "Exception" THEN {} ELSE an_pending \ {hashed_file}
        /\ CASE af = "EmptySourceFile" ->
                    /\ an_empty' = an_empty \cup {hashed_file.fpath}
                    /\ UNCHANGED <<an_exceptions, new_program_units, an_buffer, analysis_csv>>
             [] af = "Exception" ->
                    /\ an_exceptions' = an_exceptions \cup {hashed_file.fpath}
                    /\ UNCHANGED <<an_empty, new_program_units, an_buffer, analysis_csv>>
             [] af = "AnalysedFile" ->
                    /\ new_program_units' = Append(new_program_units, analyser(hashed_file))
                    /\ \E row \in as_rows(<<analyser(hashed_file)>>), full \in BOOLEAN :
                        IF full
                        THEN /\ analysis_csv' = [analysis_csv EXCEPT !.rows = @ \o an_buffer \o row]
                             /\ an_buffer' = <<>>
                        ELSE /\ an_buffer' = an_buffer \o row
                             /\ UNCHANGED analysis_csv
                    /\ UNCHANGED <<an_empty, an_exceptions>>
    /\ UNCHANGED <<latest_file_hashes, an_pc, unchanged, to_analyse, an_runs, csv_at_load,
                   at_crash, compileVars, rtVars, symVars, resVars, caseVars, arVars, ppVars, fppVars, runVars>>

\* analyse_file_type that writes a row for an empty source file as well
analyse_file_type_row_for_empty ==
    /\ an_pc \in {"fortran", "c"}
    /\ \E hashed_file \in an_pending, af \in {"AnalysedFile", "EmptySourceFile", "Exception"} :
        /\ an_pending' = an_pending \ {hashed_file}
        /\ CASE af = "EmptySourceFile" ->
                    /\ an_empty' = an_empty \cup {hashed_file.fpath}
                    /\ \E row \in as_rows(<<analyser(hashed_file)>>) :
                          an_buffer' = an_buffer \o row
                    /\ UNCHANGED <<an_exceptions, new_program_units, analysis_csv>>
             [] af = "Exception" ->
                    /\ an_exceptions' = an_exceptions \cup {hashed_file.fpath}
                    /\ UNCHANGED <<an_empty, new_program_units, an_buffer, analysis_csv>>
             [] af = "AnalysedFile" ->
                    /\ new_program_units' = Append(new_program_units, analyser(hashed_file))
                    /\ \E row \in as_rows(<<analyser(hashed_file)>>), full \in BOOLEAN :
                        IF full
                        THEN /\ analysis_csv' = [analysis_csv EXCEPT !.rows = @ \o an_buffer \o row]
                             /\ an_buffer' = <<>>
                        ELSE /\ an_buffer' = an_buffer \o row
                             /\ UNCHANGED analysis_csv
                    /\ UNCHANGED <<an_empty, an_exceptions>>
    /\ UNCHANGED <<latest_file_hashes, an_pc, unchanged, to_analyse, an_runs, csv_at_load,
                   at_crash, compileVars, rtVars, symVars, resVars, caseVars, arVars, ppVars, fppVars, runVars>>

\* analyse_file_type, lines 605-615: one result arrives, in any order
\* (imap_unordered).  The row of an AnalysedFile is written to the progress
\* file, which is not flushed: the row stays in the writer's buffer unless it
\* fills the buffer, and then the buffer is written out.
analyse_file_type ==
    /\ an_pc \in {"fortran", "c"}
    /\ \E hashed_file \in an_pending, af \in {"AnalysedFile", "EmptySourceFile", "Exception"} :
        /\ an_pending' = an_pending \ {hashed_file}
        /\ CASE af = "EmptySourceFile" ->
                    /\ an_empty' = an_empty \cup {hashed_file.fpath}
                    /\ UNCHANGED <<an_exceptions, new_program_units, an_buffer, analysis_csv>>
             [] af = "Exception" ->
                    /\ an_exceptions' = an_exceptions \cup {hashed_file.fpath}
                    /\ UNCHANGED <<an_empty, new_program_units, an_buffer, analysis_csv>>
             [] af = "AnalysedFile" ->
                    /\ new_program_units' = Append(new_program_units, analyser(hashed_file))
                    /\ \E row \in as_rows(<<analyser(hashed_file)>>), full \in BOOLEAN :
                        IF full
                        THEN /\ analysis_csv' = [analysis_csv EXCEPT !.rows = @ \o an_buffer \o row]
                             /\ an_buffer' = <<>>
                        ELSE /\ an_buffer' = an_buffer \o row
                             /\ UNCHANGED analysis_csv
                    /\ UNCHANGED <<an_empty, an_exceptions>>
    /\ UNCHANGED <<latest_file_hashes, an_pc, unchanged, to_analyse, an_runs, csv_at_load,
                   at_crash, compileVars, rtVars, symVars, resVars, caseVars, arVars, ppVars, fppVars, runVars>>

\* analyse, lines 375-378: the Fortran files are done, now the C files
analyse ==
    /\ an_pc = "fortran"
    /\ an_pending = {}
    /\ an_pending' = to_analyse_by_type(to_analyse, DotC)
    /\ an_pc' = "c"
    /\ UNCHANGED <<latest_file_hashes, analysis_csv, an_buffer, unchanged, to_analyse,
                   new_program_units, an_exceptions, an_empty, an_runs, csv_at_load,
                   at_crash, compileVars, rtVars, symVars, resVars, caseVars, arVars, ppVars, fppVars, runVars>>

\* analysis_progress, line 526: all results are in, close the progress file
analysis_progress_close ==
    /\ an_pc = "c"
    /\ an_pending = {}
    /\ analysis_csv' = [analysis_csv EXCEPT !.rows = @ \o an_buffer]
    /\ an_buffer' = <<>>
    /\ an_pc' = "done"
    /\ UNCHANGED <<latest_file_hashes, unchanged, to_analyse, an_pending, new_program_units,
                   an_exceptions, an_empty, an_runs, csv_at_load, at_crash,
                   compileVars, rtVars, symVars, resVars, caseVars, arVars, ppVars, fppVars, runVars>>

\* the files the run has a result for: carried over, or analysed
Progress == {<<pu.fpath, pu.file_hash>> : pu \in ToSet(unchanged) \cup ToSet(new_program_units)}

\* The process is halted while the progress file is open.  An interpreter
\* that exits in an orderly way closes the file, which writes the buffer out;
\* a killed process or a machine that stops leaves on disk what was on disk.
\* What the process held in memory is gone.
crash ==
    /\ an_pc \in {"opened", "fortran", "c"}
    /\ \E closed \in BOOLEAN :
        analysis_csv' = IF closed THEN [analysis_csv EXCEPT !.rows = @ \o an_buffer]
                        ELSE analysis_csv
    /\ an_buffer' = <<>>
    /\ at_crash' = [phase |-> an_pc, progress |-> Progress]
    /\ an_pc' = "crashed"
    /\ unchanged' = <<>>
    /\ to_analyse' = <<>>
    /\ an_pending' = {}
    /\ new_program_units' = <<>>
    /\ an_exceptions' = {}
    /\ an_empty' = {}
    /\ csv_at_load' = <<>>
    /\ UNCHANGED <<latest_file_hashes, an_runs, compileVars, rtVars, symVars, resVars, caseVars, arVars, ppVars, fppVars, runVars>>

\* get_latest_checksums, lines 494-502, of the run that follows a halted
\* one: one file of the source tree has been added, removed or edited since.
get_latest_checksums ==
    /\ an_pc = "crashed"
    /\ an_runs < MaxRuns
    /\ \E latest \in SourceTrees :
        /\ \E fpath \in SourceFiles :
            /\ \A p \in SourceFiles \ {fpath} :
                /\ p \in DOMAIN latest <=> p \in DOMAIN latest_file_hashes
                /\ p \in DOMAIN latest => latest[p] = latest_file_hashes[p]
            /\ \/ (fpath \in DOMAIN latest) # (fpath \in DOMAIN latest_file_hashes)
               \/ /\ fpath \in DOMAIN latest
                  /\ fpath \in DOMAIN latest_file_hashes
                  /\ latest[fpath] # latest_file_hashes[fpath]
        /\ latest_file_hashes' = latest
    /\ an_pc' = "idle"
    /\ UNCHANGED <<analysis_csv, an_buffer, unchanged, to_analyse, an_pending,
                   new_program_units, an_exceptions, an_empty, an_runs, csv_at_load,
                   at_crash, compileVars, rtVars, symVars, resVars, caseVars, arVars, ppVars, fppVars, runVars>>

NextAnalysis ==
    \/ analysis_progress
    \/ analysis_progress_flush
    \/ analyse_file_type
    \/ analyse
    \/ analysis_progress_close
    \/ crash
    \/ get_latest_checksums

-----------------------------------------------------------------------------
(* Fab.gen_symbol_table (builder.py) *)

\* (mutant) a later definition replaces the binding
RECURSIVE gen_symbol_table_last_wins(_)
gen_symbol_table_last_wins(files) ==
    IF files = <<>> THEN [symbols |-> NoMap, duplicates |-> {}]
    ELSE LET before == gen_symbol_table_last_wins(SubSeq(files, 1, Len(files) - 1))
             source_file == files[Len(files)]
             seen == source_file.symbol_defs \cap DOMAIN before.symbols
         IN  [symbols |-> Update(before.symbols,
                                 [symbol_def \in source_file.symbol_defs |-> source_file.fpath]),
              duplicates |-> before.duplicates \cup
                    {[symbol |-> symbol_def, fpath |-> source_file.fpath,
                      found_in |-> before.symbols[symbol_def]] : symbol_def \in seen}]

\* gen_symbol_table over all_analysed_files.values(), in the order of the
\* dict.  A duplicate is the ValueError of lines 394-396: the symbol, the file
\* that defines it again and the file it was already found in.
RECURSIVE gen_symbol_table(_)
gen_symbol_table(files) ==
    IF files = <<>> THEN [symbols |-> NoMap, duplicates |-> {}]
    ELSE LET before == gen_symbol_table(SubSeq(files, 1, Len(files) - 1))
             source_file == files[Len(files)]
             seen == source_file.symbol_defs \cap DOMAIN before.symbols
         IN  [symbols |-> Update(before.symbols,
                                 [symbol_def \in source_file.symbol_defs \ seen |->
                                    source_file.fpath]),
              duplicates |-> before.duplicates \cup
                    {[symbol |-> symbol_def, fpath |-> source_file.fpath,
                      found_in |-> before.symbols[symbol_def]] : symbol_def \in seen}]

SymbolNames == {<<"f">>, <<"g">>}

\* the dicts of analysed files: some files in some order, each defining some
\* of the symbols
SymbolInputs ==
    UNION {UNION {{[i \in 1..Len(order) |->
                        AnalysedFile(order[i], 0, {}, defs[i], {}, {})] :
                      defs \in [1..Len(order) -> SUBSET SymbolNames]} :
                  order \in Orders(files)} :
           files \in SUBSET SourceFiles}

InitSymbols ==
    /\ all_analysed_files \in SymbolInputs
    /\ symbols = NoMap
    /\ duplicates = {}
    /\ sym_pc = "new"

IdleSymbols ==
    /\ all_analysed_files = <<>>
    /\ symbols = NoMap
    /\ duplicates = {}
    /\ sym_pc = "off"

\* Fab.run, line 285: the symbol table is generated; duplicates are logged
\* as a warning and the table is returned (the exit is commented out).
run_gen_symbol_table ==
    /\ sym_pc = "new"
    /\ symbols' = gen_symbol_table(all_analysed_files).symbols
    /\ duplicates' = gen_symbol_table(all_analysed_files).duplicates
    /\ sym_pc' = "done"
    /\ UNCHANGED <<all_analysed_files, compileVars, rtVars, anVars, resVars, caseVars, arVars, ppVars, fppVars, runVars>>

NextSymbols == run_gen_symbol_table

-----------------------------------------------------------------------------
(* Fab.run, lines 285-329: symbol dependencies become file dependencies,
   commented file dependencies are added, and the build tree is extracted *)

\* self.target is not set
NoTarget == <<>>

NoTree == [x \in {} |-> 0]

\* Path.name: the last component of a path
path_name(p) ==
    LET slashes == {i \in 1..Len(p) : p[i] = "/"}
    IN  IF slashes = {} THEN p
        ELSE SubSeq(p, (CHOOSE i \in slashes : \A j \in slashes : j <= i) + 1, Len(p))

\* a dict of analysed files as the mapping fpath -> AnalysedFile
tree_of(files) ==
    [fpath \in {files[i].fpath : i \in 1..Len(files)} |->
        (CHOOSE af \in ToSet(files) : af.fpath = fpath)]

\* lines 288-298, ignoring which symbols are defined: every symbol is taken
\* as found in the first file of the dict
symbol_deps_to_file_deps_no_lookup(files, symbols_) ==
    [files |-> [i \in 1..Len(files) |->
                    [files[i] EXCEPT !.file_deps =
                        @ \cup {files[1].fpath : symbol_dep \in files[i].symbol_deps}]],
     deps_not_found |-> {}]

\* Fab.run, lines 288-298: for every analysed file and every symbol it uses,
\* symbols.get(symbol_dep) is added to the file's file_deps; a symbol the
\* table does not hold goes to deps_not_found instead.  Nothing compares
\* file_dep with the file's own path.
symbol_deps_to_file_deps(files, symbols_) ==
    [files |-> [i \in 1..Len(files) |->
                    [files[i] EXCEPT !.file_deps =
                        @ \cup {symbols_[symbol_dep] :
                                  symbol_dep \in files[i].symbol_deps \cap DOMAIN symbols_}]],
     deps_not_found |-> UNION {files[i].symbol_deps \ DOMAIN symbols_ : i \in 1..Len(files)}]

\* add_mo_commented_file_deps without the lookup: nothing is added
add_mo_commented_file_deps_nothing(files, analysed_fortran, analysed_c) ==
    [raised |-> FALSE, files |-> files]

\* add_mo_commented_file_deps as Fab.run calls it at line 304, with the lists
\* of the files analysed in this run: lookup maps the name of every file of
\* analysed_c to the file, and every f of analysed_fortran gets
\* lookup[dep].fpath in its file_deps for every dep of its commented deps.
\* lookup[dep] is a KeyError when analysed_c holds no file of that name.
add_mo_commented_file_deps(files, analysed_fortran, analysed_c) ==
    LET lookup == [name \in {path_name(c) : c \in analysed_c} |->
                      CHOOSE c \in analysed_c : path_name(c) = name]
        wanted(f) == IF f.fpath \in analysed_fortran THEN f.mo_commented_file_deps ELSE {}
    IN  IF \E i \in 1..Len(files) : wanted(files[i]) \ DOMAIN lookup # {}
        THEN [raised |-> TRUE, files |-> files]
        ELSE [raised |-> FALSE,
              files |-> [i \in 1..Len(files) |->
                            [files[i] EXCEPT !.file_deps =
                                @ \cup {lookup[dep] : dep \in wanted(files[i])}]]]

\* _extract_sub_tree, lines 160-186: a key already in dst_tree is left alone;
\* otherwise the node of src_tree is put in dst_tree under the key and its
\* file_deps are walked: one that src_tree does not hold goes to 'missing',
\* the others are extracted in turn.  'st' is the pair of dst_tree and
\* missing, which the recursion updates in place, with 'copied', the keys in
\* the order in which line 171 has assigned them.
RECURSIVE _extract_sub_tree(_, _, _)
RECURSIVE _extract_file_deps(_, _, _)

\* _extract_sub_tree that assigns a key of dst_tree again
_extract_sub_tree_copies_again(src_tree, key, st) ==
    LET node == src_tree[key]
        put == [st EXCEPT !.dst_tree = Update(@, [k \in {key} |-> node]),
                          !.copied = Append(@, key)]
    IN  IF key \in DOMAIN st.dst_tree THEN put
        ELSE _extract_file_deps(src_tree, node.file_deps, put)

_extract_sub_tree(src_tree, key, st) ==
    IF key \in DOMAIN st.dst_tree THEN st
    ELSE LET node == src_tree[key]
         IN  _extract_file_deps(src_tree, node.file_deps,
                 [st EXCEPT !.dst_tree = Update(@, [k \in {key} |-> node]),
                            !.copied = Append(@, key)])

\* the loop of lines 175-186 over node.file_deps
_extract_file_deps(src_tree, file_deps_, st) ==
    IF file_deps_ = {} THEN st
    ELSE LET file_dep == CHOOSE d \in file_deps_ : TRUE
             after == IF file_dep \notin DOMAIN src_tree
                      THEN [st EXCEPT !.missing = @ \cup {file_dep}]
                      ELSE _extract_sub_tree(src_tree, file_dep, st)
         IN  _extract_file_deps(src_tree, file_deps_ \ {file_dep}, after)

\* _extract_sub_tree that does not follow the dependencies of a dependency
extract_sub_tree_one_level(source_tree, root) ==
    LET node == source_tree[root]
        present == node.file_deps \cap DOMAIN source_tree
    IN  [result |-> [key \in {root} \cup present |-> source_tree[key]],
         missing |-> node.file_deps \ DOMAIN source_tree]

\* extract_sub_tree that forgets the dependencies it could not find
extract_sub_tree_no_missing(source_tree, root) ==
    [result |-> _extract_sub_tree(source_tree, root,
                    [dst_tree |-> NoTree, missing |-> {}, copied |-> <<>>]).dst_tree,
     missing |-> {}]

\* extract_sub_tree, lines 137-157: the sub-tree and the missing
\* dependencies it warns about
extract_sub_tree(source_tree, root) ==
    LET st == _extract_sub_tree(source_tree, root,
                  [dst_tree |-> NoTree, missing |-> {}, copied |-> <<>>])
    IN  [result |-> st.dst_tree, missing |-> st.missing]

\* add_unreferenced_deps that replaces the build tree by the sub-tree
RECURSIVE add_unreferenced_deps_replacing(_, _, _, _)
add_unreferenced_deps_replacing(unreferenced, symbols_, all_files, tree) ==
    IF unreferenced = <<>> THEN [build_tree |-> tree, warnings |-> {}]
    ELSE LET symbol_dep == unreferenced[1]
             rest == SubSeq(unreferenced, 2, Len(unreferenced))
         IN  IF symbol_dep \notin DOMAIN symbols_
             THEN LET after == add_unreferenced_deps_replacing(rest, symbols_, all_files, tree)
                  IN  [after EXCEPT !.warnings = @ \cup {symbol_dep}]
             ELSE add_unreferenced_deps_replacing(rest, symbols_, all_files,
                      extract_sub_tree(all_files, symbols_[symbol_dep]).result)

\* Fab.add_unreferenced_deps, lines 629-665, for the list self.unreferenced_deps:
\* a symbol without a file is warned about; a symbol whose file is in the
\* build tree changes nothing; for any other, the sub-tree of its file is
\* extracted from all_analysed_files and merged into the build tree.
RECURSIVE add_unreferenced_deps(_, _, _, _)
add_unreferenced_deps(unreferenced, symbols_, all_files, tree) ==
    IF unreferenced = <<>> THEN [build_tree |-> tree, warnings |-> {}]
    ELSE LET symbol_dep == unreferenced[1]
             rest == SubSeq(unreferenced, 2, Len(unreferenced))
         IN  IF symbol_dep \notin DOMAIN symbols_
             THEN LET after == add_unreferenced_deps(rest, symbols_, all_files, tree)
                  IN  [after EXCEPT !.warnings = @ \cup {symbol_dep}]
             ELSE IF all_files[symbols_[symbol_dep]].fpath \in DOMAIN tree
             THEN add_unreferenced_deps(rest, symbols_, all_files, tree)
             ELSE add_unreferenced_deps(rest, symbols_, all_files,
                      Update(tree, extract_sub_tree(all_files, symbols_[symbol_dep]).result))

\* the symbols a file may use: those of the three files and one that no
\* file defines
ResolveSymbols == {<<"a">>, <<"b">>, <<"h">>, <<"u">>}

\* the symbol dependencies of the source files, at most n in all
SymbolDeps(n) ==
    {deps \in [SourceFiles -> SUBSET ResolveSymbols] :
        Cardinality(deps[FileA]) + Cardinality(deps[FileB]) + Cardinality(deps[FileH]) <= n}

\* the file dependencies of the source files, at most n in all
FileDeps(n) ==
    {deps \in [SourceFiles -> SUBSET (SourceFiles \cup {GoneSource})] :
        Cardinality(deps[FileA]) + Cardinality(deps[FileB]) + Cardinality(deps[FileH]) <= n}

\* line 275: the dict holds the unchanged files, then the Fortran files
\* analysed in this run, then the C files analysed in this run
dict_order(newly) ==
    LET all == <<FileA, FileB, FileH>>
        is_unchanged(p) == p \notin newly
        is_new_fortran(p) == p \in newly /\ path_suffix(p) = F90
        is_new_c(p) == p \in newly /\ path_suffix(p) = DotC
    IN  SelectSeq(all, is_unchanged) \o SelectSeq(all, is_new_fortran)
            \o SelectSeq(all, is_new_c)

\* the paths of analysed_fortran and of analysed_c
analysed_fortran_of(newly) == {p \in newly : path_suffix(p) = F90}
analysed_c_of(newly) == {p \in newly : path_suffix(p) = DotC}

\* the analysis results Fab.run starts the resolver with: every file defines
\* the symbol named after it, uses some symbols, and a Fortran file may name
\* the C file in a DEPENDS ON comment; file_deps are still empty
InitResolve ==
    \E newly \in SUBSET SourceFiles,
       commented \in [{FileA, FileB} -> SUBSET {path_name(FileH)}],
       deps \in SymbolDeps(MaxDeps) :
        /\ all_analysed_files =
              [i \in 1..3 |->
                 LET fpath == dict_order(newly)[i]
                 IN  AnalysedFile(fpath, 0, deps[fpath], {<<fpath[1]>>}, {},
                                  IF fpath \in DOMAIN commented THEN commented[fpath] ELSE {})]
        /\ newly_analysed = newly
        /\ symbols = NoMap
        /\ duplicates = {}
        /\ sym_pc = "new"
        /\ deps_not_found = {}
        /\ target \in {NoTarget, <<"a">>, <<"u">>}
        /\ unreferenced_deps = <<>>
        /\ build_tree = NoTree
        /\ missing = {}
        /\ res_warnings = {}
        /\ res_pc = "symbols"
        /\ res_error = "none"

\* a source tree with any file dependencies, its symbol table made, ready
\* for the extraction of the build tree
InitTree ==
    \E deps \in FileDeps(MaxDeps) :
        /\ all_analysed_files =
              [i \in 1..3 |->
                 LET fpath == dict_order({})[i]
                 IN  AnalysedFile(fpath, 0, {}, {<<fpath[1]>>}, deps[fpath], {})]
        /\ newly_analysed = {}
        /\ symbols = gen_symbol_table(all_analysed_files).symbols
        /\ duplicates = {}
        /\ sym_pc = "done"
        /\ deps_not_found = {}
        /\ target \in {NoTarget, <<"a">>, <<"b">>, <<"h">>}
        /\ unreferenced_deps \in UNION {[1..n -> ResolveSymbols] : n \in 0..MaxUnreferenced}
        /\ build_tree = NoTree
        /\ missing = {}
        /\ res_warnings = {}
        /\ res_pc = "commented"
        /\ res_error = "none"

IdleResolve ==
    /\ newly_analysed = {}
    /\ deps_not_found = {}
    /\ target = NoTarget
    /\ unreferenced_deps = <<>>
    /\ build_tree = NoTree
    /\ missing = {}
    /\ res_warnings = {}
    /\ res_pc = "off"
    /\ res_error = "none"

\* Fab.run, lines 287-300: symbol deps are turned into file deps
run_symbol_deps_to_file_deps ==
    /\ sym_pc = "done"
    /\ res_pc = "symbols"
    /\ all_analysed_files' = symbol_deps_to_file_deps(all_analysed_files, symbols).files
    /\ deps_not_found' = symbol_deps_to_file_deps(all_analysed_files, symbols).deps_not_found
    /\ res_pc' = "file_deps"
    /\ UNCHANGED <<symbols, duplicates, sym_pc, newly_analysed, target, unreferenced_deps,
                   build_tree, missing, res_warnings, res_error,
                   compileVars, rtVars, anVars, caseVars, arVars, ppVars, fppVars, runVars>>

\* Fab.run, line 304: the commented file deps, for analysed_fortran and
\* analysed_c; a KeyError ends the run
run_add_mo_commented_file_deps ==
    /\ res_pc = "file_deps"
    /\ LET added == add_mo_commented_file_deps(all_analysed_files,
                         analysed_fortran_of(newly_analysed), analysed_c_of(newly_analysed))
       IN  IF added.raised
           THEN /\ res_pc' = "failed"
                /\ res_error' = "KeyError"
                /\ UNCHANGED all_analysed_files
           ELSE /\ res_pc' = "commented"
                /\ all_analysed_files' = added.files
                /\ UNCHANGED res_error
    /\ UNCHANGED <<symbols, duplicates, sym_pc, newly_analysed, deps_not_found, target,
                   unreferenced_deps, build_tree, missing, res_warnings,
                   compileVars, rtVars, anVars, caseVars, arVars, ppVars, fppVars, runVars>>

\* the target tree extraction that builds everything when the symbol table
\* does not hold the target
run_extract_sub_tree_build_all ==
    /\ res_pc = "commented"
    /\ IF target \in DOMAIN symbols
       THEN LET extracted == extract_sub_tree(tree_of(all_analysed_files), symbols[target])
            IN  build_tree' = extracted.result /\ missing' = extracted.missing
       ELSE build_tree' = tree_of(all_analysed_files) /\ UNCHANGED missing
    /\ res_pc' = "extracted"
    /\ UNCHANGED <<symVars, newly_analysed, deps_not_found, target, unreferenced_deps,
                   res_warnings, res_error, compileVars, rtVars, anVars, caseVars, arVars, ppVars, fppVars, runVars>>

\* Fab.run, lines 316-323: with a target, the build tree is the sub-tree of
\* the file symbols[self.target], a KeyError when the table does not hold
\* the target; without one, the build tree is all_analysed_files
run_extract_sub_tree ==
    /\ res_pc = "commented"
    /\ IF target = NoTarget
       THEN /\ build_tree' = tree_of(all_analysed_files)
            /\ res_pc' = "extracted"
            /\ UNCHANGED <<missing, res_error>>
       ELSE IF target \notin DOMAIN symbols
       THEN /\ res_pc' = "failed"
            /\ res_error' = "KeyError"
            /\ UNCHANGED <<build_tree, missing>>
       ELSE LET extracted == extract_sub_tree(tree_of(all_analysed_files), symbols[target])
            IN  /\ build_tree' = extracted.result
                /\ missing' = extracted.missing
                /\ res_pc' = "extracted"
                /\ UNCHANGED res_error
    /\ UNCHANGED <<symVars, newly_analysed, deps_not_found, target, unreferenced_deps,
                   res_warnings, compileVars, rtVars, anVars, caseVars, arVars, ppVars, fppVars, runVars>>

\* Fab.run, line 329: the unreferenced dependencies are added to the build tree
run_add_unreferenced_deps ==
    /\ res_pc = "extracted"
    /\ LET added == add_unreferenced_deps(unreferenced_deps, symbols,
                                          tree_of(all_analysed_files), build_tree)
       IN  /\ build_tree' = added.build_tree
           /\ res_warnings' = added.warnings
    /\ res_pc' = "unreferenced"
    /\ UNCHANGED <<symVars, newly_analysed, deps_not_found, target, unreferenced_deps,
                   missing, res_error, compileVars, rtVars, anVars, caseVars, arVars, ppVars, fppVars, runVars>>

NextResolve ==
    \/ run_gen_symbol_table
    \/ run_symbol_deps_to_file_deps
    \/ run_add_mo_commented_file_deps
    \/ run_extract_sub_tree

NextTree ==
    \/ run_extract_sub_tree
    \/ run_add_unreferenced_deps

-----------------------------------------------------------------------------
(* The letter case of symbol names: AnalysedFile.add_symbol_def and          *)
(* add_symbol_dep (dep_tree.py), called by the analysers for every name     *)
(* they find in a source file                                                *)

MaxSymbols == 3

\* str.lower() on one character
lower_char(c) ==
    IF c = "F" THEN "f" ELSE IF c = "G" THEN "g" ELSE c

\* str.lower()
lower(name) == [i \in 1..Len(name) |-> lower_char(name[i])]

\* add_symbol_def that keeps the name as written
add_symbol_def_as_written(af, name) ==
    [af EXCEPT !.symbol_defs = @ \cup {name}]

\* AnalysedFile.add_symbol_def, lines 60-62
add_symbol_def(af, name) ==
    [af EXCEPT !.symbol_defs = @ \cup {lower(name)}]

\* AnalysedFile.add_symbol_dep, lines 64-66
add_symbol_dep(af, name) ==
    [af EXCEPT !.symbol_deps = @ \cup {lower(name)}]

\* the names as source files write them
WrittenNames == {<<"f">>, <<"F">>, <<"g">>, <<"G">>}

\* two Fortran files about to be analysed
InitCase ==
    /\ all_analysed_files = <<AnalysedFile(FileA, 0, {}, {}, {}, {}),
                              AnalysedFile(FileB, 0, {}, {}, {}, {})>>
    /\ src_defs = {}
    /\ src_deps = {}
    /\ symbols = NoMap
    /\ duplicates = {}
    /\ sym_pc = "analysing"
    /\ newly_analysed = {FileA, FileB}
    /\ deps_not_found = {}
    /\ target = NoTarget
    /\ unreferenced_deps = <<>>
    /\ build_tree = NoTree
    /\ missing = {}
    /\ res_warnings = {}
    /\ res_pc = "symbols"
    /\ res_error = "none"

\* the analyser finds the definition of a name in a file
analyser_add_symbol_def ==
    /\ sym_pc = "analysing"
    /\ Cardinality(src_defs) + Cardinality(src_deps) < MaxSymbols
    /\ \E i \in 1..Len(all_analysed_files), name \in WrittenNames :
        /\ all_analysed_files' =
              [all_analysed_files EXCEPT ![i] = add_symbol_def(@, name)]
        /\ src_defs' = src_defs \cup {<<all_analysed_files[i].fpath, name>>}
    /\ UNCHANGED <<src_deps, symbols, duplicates, sym_pc, resVars, compileVars, rtVars,
                   anVars, arVars, ppVars, fppVars, runVars>>

\* the analyser finds the use of a name in a file
analyser_add_symbol_dep ==
    /\ sym_pc = "analysing"
    /\ Cardinality(src_defs) + Cardinality(src_deps) < MaxSymbols
    /\ \E i \in 1..Len(all_analysed_files), name \in WrittenNames :
        /\ all_analysed_files' =
              [all_analysed_files EXCEPT ![i] = add_symbol_dep(@, name)]
        /\ src_deps' = src_deps \cup {<<all_analysed_files[i].fpath, name>>}
    /\ UNCHANGED <<src_defs, symbols, duplicates, sym_pc, resVars, compileVars, rtVars,
                   anVars, arVars, ppVars, fppVars, runVars>>

\* the analysis is over and its results go on to gen_symbol_table as they
\* are
analysis_done ==
    /\ sym_pc = "analysing"
    /\ sym_pc' = "new"
    /\ UNCHANGED <<all_analysed_files, symbols, duplicates, caseVars, resVars,
                   compileVars, rtVars, anVars, arVars, ppVars, fppVars, runVars>>

\* the analysis is over, its results were written with as_dict, and a later
\* run reads them back with from_dict for gen_symbol_table: no file is newly
\* analysed in that run
analysis_reloaded ==
    /\ sym_pc = "analysing"
    /\ \E orders \in [1..Len(all_analysed_files) ->
                        UNION {FieldOrders(all_analysed_files[i]) :
                                  i \in 1..Len(all_analysed_files)}] :
        /\ \A i \in 1..Len(all_analysed_files) :
              orders[i] \in FieldOrders(all_analysed_files[i])
        /\ all_analysed_files' =
              [i \in 1..Len(all_analysed_files) |->
                  from_dict(as_dict(all_analysed_files[i], orders[i])).value]
    /\ sym_pc' = "new"
    /\ newly_analysed' = {}
    /\ UNCHANGED <<symbols, duplicates, caseVars, deps_not_found, target,
                   unreferenced_deps, build_tree, missing, res_warnings, res_pc, res_error,
                   compileVars, rtVars, anVars, arVars, ppVars, fppVars, runVars>>

NextCase ==
    \/ analyser_add_symbol_def
    \/ analyser_add_symbol_dep
    \/ analysis_done
    \/ analysis_reloaded
    \/ run_gen_symbol_table
    \/ run_symbol_deps_to_file_deps

-----------------------------------------------------------------------------
(* ArchiveObjects (steps/archive_objects.py) *)

MaxObjects == 3

\* an artefact collection that has not been set
NoCollection == <<>>

\* the object files there may be, in the order of sorted()
ObjectNames == <<"bar.o", "baz.o", "foo.o", "qux.o">>

\* the lists of at most n object files: what the source getter may return,
\* in any order
ObjectLists(n) ==
    UNION {Orders(objs) : objs \in {S \in SUBSET ToSet(ObjectNames) : Cardinality(S) <= n}}

\* Template(self.output_fpath).substitute(output=project_workspace / BUILD_OUTPUT),
\* for the project workspace 'workspace'
substitute(template) ==
    IF template = "$output/objects.a" THEN "workspace/build_output/objects.a"
    ELSE IF template = "$output/foo.a" THEN "workspace/build_output/foo.a"
    ELSE template

\* lines 56-58: the command
archive_command(archiver, output_fpath, compiled_files) ==
    <<archiver>> \o <<"cr", output_fpath>> \o compiled_files

\* a step constructed with or without a source getter, an archiver and an
\* output path, and the object files the getter will return
InitArchive ==
    /\ ar_archiver \in {"ar", "fooarc"}
    /\ ar_output_fpath \in {"$output/objects.a", "$output/foo.a"}
    /\ ar_source \in {"default", "given"}
    /\ ar_objects \in ObjectLists(MaxObjects)
    /\ ar_commands = <<>>
    /\ ar_store = NoCollection
    /\ ar_pc = "new"
    /\ ar_error = "none"

\* ArchiveObjects.run.  Without a source the getter is DEFAULT_SOURCE_GETTER,
\* the string "foo" (lines 24, 40), and calling it at line 54 raises
\* TypeError.  run_command may fail, which ends run with the Exception of
\* line 66.
ArchiveObjects_run ==
    /\ ar_pc = "new"
    /\ IF ar_source = "default"
       THEN /\ ar_error' = "TypeError"
            /\ ar_pc' = "failed"
            /\ UNCHANGED <<ar_commands, ar_store>>
       ELSE LET output_fpath == substitute(ar_output_fpath)
                compiled_files == ar_objects
                command == archive_command(ar_archiver, output_fpath, compiled_files)
            IN  /\ ar_commands' = Append(ar_commands, command)
                /\ \E tool_ok \in BOOLEAN :
                      IF tool_ok
                      THEN /\ ar_store' = <<output_fpath>>
                           /\ ar_pc' = "done"
                           /\ ar_error' = "none"
                      ELSE /\ ar_error' = "Exception"
                           /\ ar_pc' = "failed"
                           /\ UNCHANGED ar_store
    /\ UNCHANGED <<ar_archiver, ar_output_fpath, ar_source, ar_objects, compileVars,
                   rtVars, anVars, symVars, resVars, caseVars, ppVars, fppVars, runVars>>

NextArchive == ArchiveObjects_run

-----------------------------------------------------------------------------
(* get_fortran_preprocessor (steps/preprocess.py) *)

MaxFlags == 2

\* os.getenv('FPP'): None when the variable is not set, else its value, here
\* the list of the words that blanks separate in it
Unset == [set |-> FALSE, words |-> <<>>]
EnvValue(words) == [set |-> TRUE, words |-> words]

PreprocessorNames == {"fpp", "cpp", "mypp"}
PreprocessorFlags == {"-P", "-DX", "-traditional-cpp"}

\* the sequences of at most n flags
RECURSIVE FlagLists(_)
FlagLists(n) ==
    IF n = 0 THEN {<<>>}
    ELSE LET shorter == FlagLists(n - 1)
         IN  shorter \cup {<<flag>> \o flags : flag \in PreprocessorFlags, flags \in shorter}

\* the values FPP may have: not set, blank, or a tool followed by flags
FppValues(n) ==
    {Unset, EnvValue(<<>>)}
        \cup {EnvValue(<<tool>> \o flags) : tool \in PreprocessorNames, flags \in FlagLists(n)}

\* get_tool: the first word is the tool, the other words are its flags;
\* ValueError when no tool is named
get_tool(tool_str) ==
    IF ~tool_str.set \/ tool_str.words = <<>>
    THEN [raised |-> TRUE, tool |-> "", flags |-> <<>>]
    ELSE [raised |-> FALSE, tool |-> Head(tool_str.words), flags |-> Tail(tool_str.words)]

\* what the function returns or, with raised, the RuntimeError of line 171
NoTool == [raised |-> FALSE, fpp |-> "", fpp_flags |-> <<>>]

\* get_fortran_preprocessor without lines 173-175
get_fortran_preprocessor_as_found(env, which_fpp, which_cpp) ==
    LET from_env == get_tool(env)
    IN  IF ~from_env.raised
        THEN [raised |-> FALSE, fpp |-> from_env.tool, fpp_flags |-> from_env.flags]
        ELSE IF which_fpp THEN [raised |-> FALSE, fpp |-> "fpp", fpp_flags |-> <<"-P">>]
        ELSE IF which_cpp
        THEN [raised |-> FALSE, fpp |-> "cpp", fpp_flags |-> <<"-traditional-cpp", "-P">>]
        ELSE [raised |-> TRUE, fpp |-> "", fpp_flags |-> <<>>]

\* get_fortran_preprocessor.  which_fpp and which_cpp say whether
\* run_command(['which', ...]) succeeds.
get_fortran_preprocessor(env, which_fpp, which_cpp) ==
    LET from_env == get_tool(env)
        \* lines 146-150
        fpp1 == IF from_env.raised THEN "" ELSE from_env.tool
        flags1 == IF from_env.raised THEN <<>> ELSE from_env.flags
        \* lines 152-159
        found_fpp == fpp1 = "" /\ which_fpp
        fpp2 == IF found_fpp THEN "fpp" ELSE fpp1
        flags2 == IF found_fpp THEN <<"-P">> ELSE flags1
        \* lines 161-168
        found_cpp == fpp2 = "" /\ which_cpp
        fpp3 == IF found_cpp THEN "cpp" ELSE fpp2
        flags3 == IF found_cpp THEN <<"-traditional-cpp", "-P">> ELSE flags2
    IN  IF fpp3 = ""
        THEN [raised |-> TRUE, fpp |-> "", fpp_flags |-> <<>>]
        ELSE [raised |-> FALSE, fpp |-> fpp3,
              fpp_flags |-> IF "-P" \notin ToSet(flags3)
                            THEN Append(flags3, "-P") ELSE flags3]

\* an environment: FPP, and what is on PATH
InitFpp ==
    /\ fpp_env \in FppValues(MaxFlags)
    /\ fpp_on_path \in BOOLEAN
    /\ cpp_on_path \in BOOLEAN
    /\ fpp_result = NoTool
    /\ fpp_pc = "new"

\* preprocess_fortran, line 191: the call of get_fortran_preprocessor
run_get_fortran_preprocessor ==
    /\ fpp_pc = "new"
    /\ fpp_result' = get_fortran_preprocessor(fpp_env, fpp_on_path, cpp_on_path)
    /\ fpp_pc' = "done"
    /\ UNCHANGED <<fpp_env, fpp_on_path, cpp_on_path, compileVars, rtVars, anVars,
                   symVars, resVars, caseVars, arVars, ppVars, runVars>>

NextFpp == run_get_fortran_preprocessor

-----------------------------------------------------------------------------
(* The preprocessing phase: pre_processor and process_artefact              *)
(* (steps/preprocess.py), Fab.preprocess (builder.py) and                    *)
(* Preprocessor.preprocess (newtools/preprocessor.py)                        *)

MaxFiles == 3

\* the files there may be to preprocess
PpInputs == {"a.F90", "b.F90", "c.F90", "d.F90"}

\* the lists of at most n files
FileLists(n) ==
    UNION {Orders(files) : files \in {S \in SUBSET PpInputs : Cardinality(S) <= n}}

\* input_to_output_fpath(config, input_path).with_suffix(output_suffix): the
\* path of the same name under the build output folder, with the suffix of
\* preprocessed Fortran
output_fpath_of(fpath) ==
    CASE fpath = "a.F90" -> "build_output/a.f90"
      [] fpath = "b.F90" -> "build_output/b.f90"
      [] fpath = "c.F90" -> "build_output/c.f90"
      [] fpath = "d.F90" -> "build_output/d.f90"

\* the preprocessor executable
preprocessor == "fpp"

\* FlagsConfig.flags_for_path: the common flags, then the flags of the path
\* filters that match; one filter gives a.F90 the flag -DA
flags_for_path(path, common_flags) ==
    common_flags \o (IF path = "a.F90" THEN <<"-DA">> ELSE <<>>)

\* Preprocessor.preprocess (newtools/preprocessor.py 27-43): the parameters
\* are the flags, the input and the output; Tool.run puts the executable
\* before them
Preprocessor_preprocess(exe, input_file, output_file, add_flags) ==
    LET params == add_flags \o <<input_file, output_file>>
    IN  <<exe>> \o params

\* the value a worker returns: a path or an exception
PathResult(fpath) == [type |-> "Path", value |-> fpath]
ExceptionResult(fpath) == [type |-> "Exception", value |-> fpath]

\* process_artefact that takes no notice of reuse_artefacts
process_artefact_always_runs(fpath, tool_ok) ==
    LET output_fpath == output_fpath_of(fpath)
        command == <<preprocessor>> \o flags_for_path(fpath, pp_common_flags)
                       \o <<fpath>> \o <<output_fpath>>
    IN  [raised |-> ~tool_ok, invoked |-> TRUE, command |-> command,
         result |-> PathResult(output_fpath)]

\* process_artefact (preprocess.py 96-128).  raised: the Exception of line
\* 124 leaves the function; otherwise result is the returned value.
process_artefact(fpath, tool_ok) ==
    LET output_fpath == output_fpath_of(fpath)
        command == <<preprocessor>> \o flags_for_path(fpath, pp_common_flags)
                       \o <<fpath>> \o <<output_fpath>>
    IN  IF pp_reuse /\ output_fpath \in pp_existing
        THEN [raised |-> FALSE, invoked |-> FALSE, command |-> <<>>,
              result |-> PathResult(output_fpath)]
        ELSE [raised |-> ~tool_ok, invoked |-> TRUE, command |-> command,
              result |-> PathResult(output_fpath)]

\* the preprocessor task of Fab.preprocess: as process_artefact, with the
\* command of Preprocessor.preprocess, but a failure of the tool is returned
\* as a value
preprocessor_run(fpath, tool_ok) ==
    LET output_fpath == output_fpath_of(fpath)
        command == Preprocessor_preprocess(preprocessor, fpath, output_fpath,
                                           flags_for_path(fpath, pp_common_flags))
    IN  IF pp_reuse /\ output_fpath \in pp_existing
        THEN [raised |-> FALSE, invoked |-> FALSE, command |-> <<>>,
              result |-> PathResult(output_fpath)]
        ELSE [raised |-> FALSE, invoked |-> TRUE, command |-> command,
              result |-> IF tool_ok THEN PathResult(output_fpath)
                         ELSE ExceptionResult(fpath)]

\* the error that ends the phase: its kind and the files it names
NoPpError == [kind |-> "none", files |-> {}]

\* by_type(results, Path), in the order of the results
paths_of(files, results_) ==
    LET is_path(fpath) == results_[fpath].type = "Path"
        kept == SelectSeq(files, is_path)
    IN  [i \in 1..Len(kept) |-> results_[kept[i]].value]

\* the first place in the list of a file whose worker raises, or 0
first_raising(files, outcome) ==
    IF \E i \in 1..Len(files) : outcome[files[i]].raised
    THEN CHOOSE i \in 1..Len(files) :
            outcome[files[i]].raised /\ \A j \in 1..(i - 1) : ~outcome[files[j]].raised
    ELSE 0

\* what is common to the ends of the two drivers
pp_record(processed, outcome) ==
    /\ pp_processed' = processed
    /\ pp_failed' = {fpath \in processed :
                        outcome[fpath].invoked /\
                        (outcome[fpath].raised \/ outcome[fpath].result.type = "Exception")}
    /\ pp_commands' = [fpath \in {f \in processed : outcome[f].invoked} |->
                          outcome[fpath].command]

\* the files to preprocess, the configuration and the output files that
\* exist already
InitPreprocess ==
    /\ pp_driver \in {"pre_processor", "Fab"}
    /\ pp_files \in FileLists(MaxFiles)
    /\ pp_reuse \in BOOLEAN
    /\ pp_mp \in BOOLEAN
    /\ pp_existing \in SUBSET {output_fpath_of(fpath) : fpath \in ToSet(pp_files)}
    /\ pp_common_flags \in {<<>>, <<"-P">>}
    /\ pp_processed = {}
    /\ pp_failed = {}
    /\ pp_commands = NoMap
    /\ pp_results = NoMap
    /\ pp_error = NoPpError
    /\ pp_store = NoCollection
    /\ pp_pc = "new"

\* pre_processor, lines 86-93, with run_mp as Step.run_mp (steps/__init__.py
\* 35-46).  An exception raised by process_artefact leaves run_mp: without
\* multiprocessing the list comprehension stops at the first file that
\* raises; with a pool, map raises the exception of one of the workers after
\* some of the files were processed.  Lines 90-93 are reached only when no
\* worker raised.
pre_processor ==
    /\ pp_pc = "new"
    /\ pp_driver = "pre_processor"
    /\ \E tool_ok \in [ToSet(pp_files) -> BOOLEAN] :
        LET outcome == [fpath \in ToSet(pp_files) |->
                            process_artefact(fpath, tool_ok[fpath])]
            first == first_raising(pp_files, outcome)
            results_ == [fpath \in ToSet(pp_files) |-> outcome[fpath].result]
        IN  IF first = 0
            THEN /\ pp_record(ToSet(pp_files), outcome)
                 /\ pp_results' = results_
                 /\ pp_error' = NoPpError
                 /\ pp_store' = paths_of(pp_files, results_)
                 /\ pp_pc' = "done"
            ELSE /\ IF ~pp_mp
                    THEN /\ pp_record({pp_files[i] : i \in 1..first}, outcome)
                         /\ pp_error' = [kind |-> "Exception", files |-> {pp_files[first]}]
                    ELSE \E processed \in SUBSET ToSet(pp_files) :
                         \E raising \in processed :
                            /\ outcome[raising].raised
                            /\ pp_record(processed, outcome)
                            /\ pp_error' = [kind |-> "Exception", files |-> {raising}]
                 /\ pp_pc' = "failed"
                 /\ UNCHANGED <<pp_results, pp_store>>
    /\ UNCHANGED <<pp_driver, pp_files, pp_reuse, pp_mp, pp_existing, pp_common_flags,
                   compileVars, rtVars, anVars, symVars, resVars, caseVars, arVars,
                   fppVars, runVars>>

\* Fab.preprocess, builder.py 474-492: the task is mapped over all the
\* files, the results of type Exception are collected and raised together
Fab_preprocess ==
    /\ pp_pc = "new"
    /\ pp_driver = "Fab"
    /\ \E tool_ok \in [ToSet(pp_files) -> BOOLEAN] :
        LET outcome == [fpath \in ToSet(pp_files) |->
                            preprocessor_run(fpath, tool_ok[fpath])]
            results_ == [fpath \in ToSet(pp_files) |-> outcome[fpath].result]
            exceptions == {fpath \in ToSet(pp_files) : results_[fpath].type = "Exception"}
        IN  /\ pp_record(ToSet(pp_files), outcome)
            /\ pp_results' = results_
            /\ IF exceptions # {}
               THEN /\ pp_error' = [kind |-> "Exception", files |-> exceptions]
                    /\ pp_pc' = "failed"
                    /\ UNCHANGED pp_store
               ELSE /\ pp_error' = NoPpError
                    /\ pp_store' = paths_of(pp_files, results_)
                    /\ pp_pc' = "done"
    /\ UNCHANGED <<pp_driver, pp_files, pp_reuse, pp_mp, pp_existing, pp_common_flags,
                   compileVars, rtVars, anVars, symVars, resVars, caseVars, arVars,
                   fppVars, runVars>>

NextPreprocess == pre_processor \/ Fab_preprocess

-----------------------------------------------------------------------------
(* The parts that take no step in a specification *)

IdleCase ==
    /\ src_defs = {}
    /\ src_deps = {}

IdleArchive ==
    /\ ar_archiver = "ar"
    /\ ar_output_fpath = "$output/objects.a"
    /\ ar_source = "given"
    /\ ar_objects = <<>>
    /\ ar_commands = <<>>
    /\ ar_store = NoCollection
    /\ ar_pc = "off"
    /\ ar_error = "none"

IdlePreprocess ==
    /\ pp_driver = "pre_processor"
    /\ pp_files = <<>>
    /\ pp_reuse = FALSE
    /\ pp_mp = FALSE
    /\ pp_existing = {}
    /\ pp_common_flags = <<>>
    /\ pp_processed = {}
    /\ pp_failed = {}
    /\ pp_commands = NoMap
    /\ pp_results = NoMap
    /\ pp_error = NoPpError
    /\ pp_store = NoCollection
    /\ pp_pc = "off"

IdleFpp ==
    /\ fpp_env = Unset
    /\ fpp_on_path = FALSE
    /\ cpp_on_path = FALSE
    /\ fpp_result = NoTool
    /\ fpp_pc = "off"

-----------------------------------------------------------------------------
(* Fab.run (builder.py 243-339): the steps of a run, one after another, and *)
(* the worker pools the steps hand their work to                            *)

\* the main process, which does the work of the steps that use no pool
MainProcess == <<"main">>

\* the steps of Fab.run in the order of its statements; Fab.compile_fortran
\* compiles in passes, each with a pool of its own
Phases == <<"preprocess_c", "preprocess_fortran", "get_latest_checksums",
            "analyse_fortran", "analyse_c", "gen_symbol_table",
            "symbol_deps_to_file_deps", "add_mo_commented_file_deps",
            "extract_sub_tree", "add_unreferenced_deps", "compile_c",
            "compile_pass_1", "compile_pass_2", "link">>

\* the steps that map a function over their items with a pool
PoolPhases == {"preprocess_c", "preprocess_fortran", "get_latest_checksums",
               "analyse_fortran", "analyse_c", "compile_c",
               "compile_pass_1", "compile_pass_2"}

\* the steps whose worker can return an error
FailingPhases == PoolPhases \ {"get_latest_checksums"}

\* the steps that end the run when a result is an error: Fab.preprocess
\* raises (lines 483-489), compile_c and compile_fortran exit (686-690,
\* 737-743); analyse only logs the number of errors (381-384)
FatalPhases == {"preprocess_c", "preprocess_fortran", "compile_c",
                "compile_pass_1", "compile_pass_2"}

\* The items of a step.  b.f90 uses the symbol of a.f90 (see analyser), so
\* a.f90 is compiled in the first pass and b.f90 in the second.
phase_items(phase, input) ==
    CASE phase = "preprocess_c" -> {FileH}
      [] phase = "preprocess_fortran" -> {FileA, FileB}
      [] phase = "get_latest_checksums" -> SourceFiles
      [] phase = "analyse_fortran" -> {p \in input : path_suffix(p) = F90}
      [] phase = "analyse_c" -> {p \in input : path_suffix(p) = DotC}
      [] phase = "compile_c" -> {FileH}
      [] phase = "compile_pass_1" -> {FileA}
      [] phase = "compile_pass_2" -> {FileB}
      [] OTHER -> {MainProcess}

NoPool == [queued |-> {}, running |-> {}, errors |-> {}]

\* p.map has returned although workers are still running
map_returned_early(p) == p.queued = {}

\* run_mp, steps/__init__.py 35-46, and the pools of builder.py: p.map
\* returns when every item has its result, and the loop over the results of
\* imap_unordered (builder.py 605-615) ends with the last result
map_returned(p) == p.queued = {} /\ p.running = {}

InitRun ==
    /\ run_pc = "new"
    /\ pool = NoPool
    /\ run_events = [started |-> {}, returned |-> {}]
    /\ run_input \in SUBSET SourceFiles

IdleRun ==
    /\ run_pc = "off"
    /\ pool = NoPool
    /\ run_events = [started |-> {}, returned |-> {}]
    /\ run_input = {}

\* a worker of the pool takes an item
pool_worker_start ==
    /\ run_pc \in PoolPhases
    /\ \E item \in pool.queued :
        /\ pool' = [pool EXCEPT !.queued = @ \ {item}, !.running = @ \cup {item}]
        /\ run_events' = [run_events EXCEPT !.started = @ \cup {<<run_pc, item>>}]
    /\ UNCHANGED <<run_pc, run_input, compileVars, rtVars, anVars, symVars, resVars,
                   caseVars, arVars, ppVars, fppVars>>

\* a worker of the pool returns the result of its item, which may be an error
pool_worker_return ==
    /\ run_pc \in PoolPhases
    /\ \E item \in pool.running, ok \in BOOLEAN :
        /\ ~ok => run_pc \in FailingPhases
        /\ pool' = [pool EXCEPT !.running = @ \ {item},
                                !.errors = IF ok THEN @ ELSE @ \cup {item}]
        /\ run_events' = [run_events EXCEPT !.returned = @ \cup {<<run_pc, item>>}]
    /\ UNCHANGED <<run_pc, run_input, compileVars, rtVars, anVars, symVars, resVars,
                   caseVars, arVars, ppVars, fppVars>>

\* the step that follows, or done after the last
next_phase(phase) ==
    IF phase = "new" THEN Phases[1]
    ELSE LET i == CHOOSE j \in 1..Len(Phases) : Phases[j] = phase
         IN  IF i = Len(Phases) THEN "done" ELSE Phases[i + 1]

\* Fab.run goes on to its next statement: the map of the step in progress
\* has returned, and an error among its results has ended the run if the
\* step is one that raises or exits.  A step with a pool hands its items to
\* the pool; any other step is done by the main process there and then.
Fab_run ==
    /\ run_pc \in {"new"} \cup ToSet(Phases)
    /\ map_returned(pool)
    /\ IF pool.errors # {} /\ run_pc \in FatalPhases
       THEN /\ run_pc' = "failed"
            /\ pool' = NoPool
            /\ UNCHANGED run_events
       ELSE LET next == next_phase(run_pc)
            IN  /\ run_pc' = next
                /\ IF next \in PoolPhases
                   THEN /\ pool' = [NoPool EXCEPT !.queued = phase_items(next, run_input)]
                        /\ UNCHANGED run_events
                   ELSE /\ pool' = NoPool
                        /\ run_events' =
                              IF next = "done" THEN run_events
                              ELSE [started |-> run_events.started \cup {<<next, MainProcess>>},
                                    returned |-> run_events.returned \cup {<<next, MainProcess>>}]
    /\ UNCHANGED <<run_input, compileVars, rtVars, anVars, symVars, resVars,
                   caseVars, arVars, ppVars, fppVars>>

NextRun ==
    \/ pool_worker_start
    \/ pool_worker_return
    \/ Fab_run

-----------------------------------------------------------------------------
(* The specifications *)

InitCompileSpec ==
    InitCompile /\ IdleRoundTrip /\ IdleAnalysis /\ IdleSymbols /\ IdleResolve
        /\ IdleCase /\ IdleArchive /\ IdlePreprocess /\ IdleFpp /\ IdleRun
InitRoundTripSpec ==
    IdleCompile /\ InitRoundTrip /\ IdleAnalysis /\ IdleSymbols /\ IdleResolve
        /\ IdleCase /\ IdleArchive /\ IdlePreprocess /\ IdleFpp /\ IdleRun
InitAnalysisSpec ==
    IdleCompile /\ IdleRoundTrip /\ InitAnalysis /\ IdleSymbols /\ IdleResolve
        /\ IdleCase /\ IdleArchive /\ IdlePreprocess /\ IdleFpp /\ IdleRun
InitSymbolsSpec ==
    IdleCompile /\ IdleRoundTrip /\ IdleAnalysis /\ InitSymbols /\ IdleResolve
        /\ IdleCase /\ IdleArchive /\ IdlePreprocess /\ IdleFpp /\ IdleRun
InitResolveSpec ==
    IdleCompile /\ IdleRoundTrip /\ IdleAnalysis /\ InitResolve
        /\ IdleCase /\ IdleArchive /\ IdlePreprocess /\ IdleFpp /\ IdleRun
InitTreeSpec ==
    IdleCompile /\ IdleRoundTrip /\ IdleAnalysis /\ InitTree
        /\ IdleCase /\ IdleArchive /\ IdlePreprocess /\ IdleFpp /\ IdleRun

InitCaseSpec ==
    IdleCompile /\ IdleRoundTrip /\ IdleAnalysis /\ InitCase
        /\ IdleArchive /\ IdlePreprocess /\ IdleFpp /\ IdleRun

InitArchiveSpec ==
    IdleCompile /\ IdleRoundTrip /\ IdleAnalysis /\ IdleSymbols /\ IdleResolve
        /\ IdleCase /\ InitArchive /\ IdlePreprocess /\ IdleFpp /\ IdleRun

InitFppSpec ==
    IdleCompile /\ IdleRoundTrip /\ IdleAnalysis /\ IdleSymbols /\ IdleResolve
        /\ IdleCase /\ IdleArchive /\ IdlePreprocess /\ InitFpp /\ IdleRun

InitPreprocessSpec ==
    IdleCompile /\ IdleRoundTrip /\ IdleAnalysis /\ IdleSymbols /\ IdleResolve
        /\ IdleCase /\ IdleArchive /\ InitPreprocess /\ IdleFpp /\ IdleRun

InitRunSpec ==
    IdleCompile /\ IdleRoundTrip /\ IdleAnalysis /\ IdleSymbols /\ IdleResolve
        /\ IdleCase /\ IdleArchive /\ IdlePreprocess /\ IdleFpp /\ InitRun

\* the compile drivers
Spec == InitCompileSpec /\ [][NextCompile]_vars

\* the steps of Fab.run and their pools
SpecRun == InitRunSpec /\ [][NextRun]_vars

\* the round trip of AnalysedFile.as_dict and from_dict
SpecRoundTrip == InitRoundTripSpec /\ [][NextRoundTrip]_vars

\* the analysis phase over several runs
SpecAnalysis == InitAnalysisSpec /\ [][NextAnalysis]_vars

\* the symbol table
SpecSymbols == InitSymbolsSpec /\ [][NextSymbols]_vars

\* Fab.run from the symbol table to the build tree
SpecResolve == InitResolveSpec /\ [][NextResolve]_vars

\* the extraction of the build tree from any source tree
SpecTree == InitTreeSpec /\ [][NextTree]_vars

\* the compile drivers, which go on with the loop as long as they can
\* every tree in a workspace where nothing was built before, or where all
\* of it was
InitCompileFairSpec ==
    /\ InitCompileSpec
    /\ compilation_csv \in {BuiltTable(file_deps, {}), BuiltTable(file_deps, FortranFiles)}

\* the steps of the runs of the compile driver, with no edit between the runs
NextCompileRun ==
    \/ run_start
    \/ compile_pass
    \/ Fab_compile_fortran

\* the loop of a driver is not suspended for ever: a pass that can be taken
\* is taken (CompileFortran.run's while loop, Fab.compile_fortran's)
SpecCompileFair ==
    InitCompileFairSpec /\ [][NextCompileRun]_vars
        /\ WF_vars(compile_pass) /\ WF_vars(Fab_compile_fortran)

\* the letter case of symbol names, from the analyser to the file dependencies
SpecCase == InitCaseSpec /\ [][NextCase]_vars

\* the archive step
SpecArchive == InitArchiveSpec /\ [][NextArchive]_vars

\* the choice of the Fortran preprocessor
SpecFpp == InitFppSpec /\ [][NextFpp]_vars

\* the preprocessing phase
SpecPreprocess == InitPreprocessSpec /\ [][NextPreprocess]_vars

-----------------------------------------------------------------------------
(* Claims about the analysis phase, checked under SpecAnalysis *)

\* the previous analysis results, as read from the table found by this run
PrevRows == {from_row(csv_at_load[i]).value : i \in 1..Len(csv_at_load)}

\* load_analysis_results has returned in this run
Loaded == an_pc \in {"opened", "fortran", "c", "done"}

UnchangedPaths == {pu.fpath : pu \in ToSet(unchanged)}
ToAnalysePaths == {hashed_file.fpath : hashed_file \in ToSet(to_analyse)}

\* C7: after load_analysis_results, no row whose path is not a current file
\* is carried over; a current file is in 'unchanged', with the analysis its
\* row held, exactly when the previous table has a row for it with its
\* current hash; every other current file is in 'to_analyse' with its
\* current hash; every current file is in exactly one of the two, once.
C7_LoadPartition ==
    Loaded =>
        /\ UnchangedPaths \cup ToAnalysePaths = DOMAIN latest_file_hashes
        /\ UnchangedPaths \cap ToAnalysePaths = {}
        /\ Len(unchanged) = Cardinality(UnchangedPaths)
        /\ Len(to_analyse) = Cardinality(ToAnalysePaths)
        /\ \A p \in DOMAIN latest_file_hashes :
              p \in UnchangedPaths <=>
                \E prev \in PrevRows : prev.fpath = p /\ prev.file_hash = latest_file_hashes[p]
        /\ \A pu \in ToSet(unchanged) : pu \in PrevRows
        /\ \A hashed_file \in ToSet(to_analyse) :
              hashed_file.file_hash = latest_file_hashes[hashed_file.fpath]

\* a load that met a row of a file that is gone, a row with the current
\* hash, a row with another hash and a file without a row
C7_Witness ==
    /\ Loaded
    /\ \E prev \in PrevRows : prev.fpath \notin DOMAIN latest_file_hashes
    /\ UnchangedPaths # {}
    /\ \E p \in ToAnalysePaths : \E prev \in PrevRows : prev.fpath = p
    /\ \E p \in ToAnalysePaths : \A prev \in PrevRows : prev.fpath # p

\* the files the table on disk has a row for, with the hash of the row
OnDisk ==
    {<<from_row(analysis_csv.rows[i]).value.fpath, from_row(analysis_csv.rows[i]).value.file_hash>> :
        i \in 1..Len(analysis_csv.rows)}

\* the run was halted while analysis results were arriving
HaltedInAnalysis == at_crash.phase \in {"fortran", "c"}

\* C8: when the run is halted at any point of the analysis phase, the table
\* on disk holds a row for every unchanged file and for every file whose
\* AnalysedFile the engine had received; and the next run does not put such
\* a file in 'to_analyse' while its hash is the same.
C8_CrashLosesNothing ==
    HaltedInAnalysis =>
        /\ an_pc = "crashed" => at_crash.progress \subseteq OnDisk
        /\ Loaded =>
              \A done \in at_crash.progress :
                  (/\ done[1] \in DOMAIN latest_file_hashes
                   /\ latest_file_hashes[done[1]] = done[2]) => done[1] \notin ToAnalysePaths

-----------------------------------------------------------------------------
(* Claims about as_dict and from_dict, checked under SpecRoundTrip *)

\* C9 as claimed: for every AnalysedFile x, from_dict(x.as_dict()) equals x
\* on all fields.
C9_RoundTrip ==
    rt_pc = "done" => rt_y.ok /\ analysed_eq(rt_y.value, rt_x)

\* No name of x holds the separator and no name is empty.
Separable(x) ==
    \A name \in x.symbol_defs \cup x.symbol_deps \cup x.file_deps
                    \cup x.mo_commented_file_deps :
        name # <<>> /\ \A i \in 1..Len(name) : name[i] # ";"

\* C9 as amended: for every AnalysedFile x none of whose symbol names, file
\* dependencies and commented file dependencies contains ';' or is empty,
\* from_dict(x.as_dict()) equals x on all fields; an empty set round-trips
\* through the empty string.
C9_RoundTripSeparable ==
    rt_pc = "done" /\ Separable(rt_x) => rt_y.ok /\ analysed_eq(rt_y.value, rt_x)

\* a file with a set of two names and an empty set has made the round trip
C9_Witness ==
    /\ rt_pc = "done"
    /\ Separable(rt_x)
    /\ Cardinality(rt_x.symbol_defs) = 2
    /\ rt_x.symbol_deps = {}
    /\ rt_d.symbol_deps = <<>>
    /\ analysed_eq(rt_y.value, rt_x)


-----------------------------------------------------------------------------
(* Claims about the compile drivers, checked under Spec *)

\* C1: for every pair of Fortran files a, b of the build tree with b in
\* a.file_deps, b is handed to the compiler in a strictly earlier wave than
\* a; so no two files of one wave depend on one another.
C1_WaveCorrectness ==
    \A a \in DOMAIN wave_of : \A b \in file_deps[a] \cap FortranFiles :
        b \in DOMAIN wave_of /\ wave_of[b] < wave_of[a]

\* a run of three waves along a chain of dependencies has finished
C1_Witness ==
    /\ pc = "done"
    /\ driver = "CompileFortran"
    /\ \E a, b, c \in FortranFiles :
        /\ b \in file_deps[a] /\ c \in file_deps[b]
        /\ wave_of[c] = 1 /\ wave_of[b] = 2 /\ wave_of[a] = 3

\* No remaining file has all of its Fortran file_deps compiled.
Deadlocked ==
    /\ pc = "compiling"
    /\ to_compile # {}
    /\ \A af \in to_compile :
        \E dep \in file_deps[af] : dep.suffix = ".f90" /\ dep \notin DOMAIN compiled

\* C2: when files remain and none of them has all of its Fortran file_deps
\* compiled, the pass ends the phase with a fatal error whose report lists,
\* for each unready file, that file and the dependencies it still lacks, and
\* no compiler is invoked in that pass.
C2_DeadlockReport ==
    [][Deadlocked =>
        /\ pc' = "failed"
        /\ error'.kind = "unfulfilled dependencies"
        /\ error'.per_file =
            {<<af, dep>> \in to_compile \X DepTargets :
                dep \in file_deps[af] /\ dep.suffix = ".f90" /\ dep \notin DOMAIN compiled}
        /\ results' = results]_vars

\* The four conditions of the per-file compile decision, read off the state
\* of the run in which af was processed (before any later edit).
MustRecompile(af) ==
    \/ af \notin DOMAIN last_compile
    \/ /\ af \in DOMAIN last_compile
       /\ \/ file_hash[af] # last_compile[af].source_hash
          \/ flags_hash[af] # last_compile[af].flags_hash
          \/ \E m \in module_deps(af) :
                \/ m \notin DOMAIN last_compile[af].module_deps_hashes
                \/ mod_hashes[m] # last_compile[af].module_deps_hashes[m]

\* C3: process_file invokes the external compiler for a file if and only if
\* there is no previous compile record for it, or its source hash, its flags
\* hash or the hash of one of its module dependencies differs from the
\* record; otherwise the compiler is not invoked and the object path is
\* reused.
C3_RecompileIff ==
    driver = "CompileFortran" /\ changes = {} =>
        \A af \in DOMAIN results :
            /\ results[af].invoked <=> MustRecompile(af)
            /\ ~MustRecompile(af) =>
                \E cf \in results[af].cf : cf.output_fpath = with_suffix(af, ".o")

\* The current run of CompileFortran follows a successful one.
Rerun == driver = "CompileFortran" /\ prev_ok /\ pc # "idle"

\* C4: a run after a successful run, with no change to sources, flags or
\* module artefacts, invokes no compiler, succeeds, and writes a table with
\* the same set of records as the run before.
C4_IdempotentRerun ==
    Rerun /\ run_changes = {} =>
        /\ \A af \in DOMAIN results : ~results[af].invoked
        /\ pc # "failed"
        /\ pc = "done" =>
            /\ compilation_csv = csv_at_start
            /\ {row.input_fpath : row \in compilation_csv.rows} = FortranFiles

\* an unchanged rerun of several waves has finished
C4_Witness ==
    /\ Rerun /\ run_changes = {}
    /\ pc = "done"
    /\ pass >= 2
    /\ DOMAIN results = FortranFiles

\* g depends on af through a chain of Fortran file_deps
RECURSIVE DependsOn(_, _, _)
DependsOn(g, af, n) ==
    /\ n > 0
    /\ \/ af \in file_deps[g]
       \/ \E d \in file_deps[g] \cap FortranFiles : DependsOn(d, af, n - 1)

Leaf(af) == file_deps[af] \cap FortranFiles = {}

Recompiled(af) == af \in DOMAIN results /\ results[af].invoked

\* C5: after a successful run, changing the content of one leaf Fortran file
\* and re-running recompiles that file, and recompiles no file that does not
\* depend on it.
C5_SourceChangeRecompiles ==
    \A af \in FortranFiles :
        Rerun /\ pc \in {"done", "failed"} /\ Leaf(af)
              /\ run_changes = {Change("source", af.stem)} =>
            /\ Recompiled(af)
            /\ \A g \in FortranFiles \ {af} :
                Recompiled(g) => DependsOn(g, af, Cardinality(FortranFiles))

\* C6: after a successful run, changing the flags of one path and re-running
\* recompiles that file; a downstream file is recompiled only if the hash of
\* a module it depends on has changed.
C6_FlagChangeRecompiles ==
    \A af \in FortranFiles :
        Rerun /\ pc \in {"done", "failed"}
              /\ run_changes = {Change("flags", af.stem)} =>
            /\ Recompiled(af)
            /\ \A g \in FortranFiles \ {af} :
                Recompiled(g) =>
                    \E m \in module_deps(g) :
                        mod_hashes[m] # last_compile[g].module_deps_hashes[m]

-----------------------------------------------------------------------------
(* Claims about the symbol table, checked under SpecSymbols *)

\* the places, in the order of the dict, of the files that define symbol_def
Definers(symbol_def) ==
    {i \in 1..Len(all_analysed_files) : symbol_def \in all_analysed_files[i].symbol_defs}

FirstDefiner(symbol_def) ==
    CHOOSE i \in Definers(symbol_def) : \A j \in Definers(symbol_def) : i <= j

\* C10: the symbol table binds exactly the symbols some analysed file
\* defines, each to the path of the first file, in the order of the dict,
\* that defines it; every later file that defines the symbol again is
\* reported in a duplicate that names this file and the first one, nothing
\* else is reported, and the table is returned all the same.
C10_FirstSeenWins ==
    sym_pc = "done" =>
        /\ DOMAIN symbols =
              UNION {all_analysed_files[i].symbol_defs : i \in 1..Len(all_analysed_files)}
        /\ \A symbol_def \in DOMAIN symbols :
              symbols[symbol_def] = all_analysed_files[FirstDefiner(symbol_def)].fpath
        /\ duplicates =
              UNION {{[symbol |-> symbol_def, fpath |-> all_analysed_files[i].fpath,
                       found_in |-> all_analysed_files[FirstDefiner(symbol_def)].fpath] :
                         i \in Definers(symbol_def) \ {FirstDefiner(symbol_def)}} :
                     symbol_def \in DOMAIN symbols}

\* a table was returned for three files of which the second and the third
\* define a symbol of the first again
C10_Witness ==
    /\ sym_pc = "done"
    /\ Len(all_analysed_files) = 3
    /\ \E symbol_def \in DOMAIN symbols :
          /\ Definers(symbol_def) = {1, 2, 3}
          /\ symbols[symbol_def] = all_analysed_files[1].fpath
    /\ Cardinality(duplicates) >= 2

-----------------------------------------------------------------------------
(* Claims about the resolver, checked under SpecResolve *)

\* lines 287-300 have run: the symbol deps were turned into file deps
SymbolDepsResolved == res_pc \in {"file_deps", "commented", "extracted", "failed"}

\* the resolver phase is over: lines 287-304 have run without an exception
ResolverDone == res_pc \in {"commented", "extracted"}

AnalysedFiles == ToSet(all_analysed_files)

\* the paths of the analysed C files with one of the given names
c_files_named(names) ==
    {c.fpath : c \in {af \in AnalysedFiles : path_suffix(af.fpath) = DotC /\
                                               path_name(af.fpath) \in names}}

C12_NoSelfDependency ==
    SymbolDepsResolved => \A f \in AnalysedFiles : f.fpath \notin f.file_deps

\* C16: after the resolver phase, every analysed Fortran file, newly
\* analysed or reused from the analysis table, has in file_deps the path of
\* a C file of name b for every name b in its commented file deps, and once
\* the build tree is extracted that C file is in it whenever the Fortran
\* file is.
C16_CommentedDepsBecomeFileDeps ==
    ResolverDone =>
        \A f \in AnalysedFiles :
            path_suffix(f.fpath) = F90 =>
                \A b \in f.mo_commented_file_deps :
                    \E c \in c_files_named({b}) :
                        /\ c \in f.file_deps
                        /\ (res_pc = "extracted" /\ f.fpath \in DOMAIN build_tree)
                              => c \in DOMAIN build_tree

\* the unresolved symbol dependencies of the analysed files
Unresolved == UNION {f.symbol_deps \ DOMAIN symbols : f \in AnalysedFiles}

\* the symbol table is made and does not hold the root symbol
RootMissing == sym_pc = "done" /\ target # NoTarget /\ target \notin DOMAIN symbols

\* C20: when the symbol table does not hold the root symbol, the target tree
\* extraction ends the run with an error and no build tree, so nothing is
\* compiled; the build tree is only ever extracted without a target or for a
\* target in the table.  Turning symbol deps into file deps never ends the
\* run: the symbols without a definer are only collected for the count, and
\* the run goes on to the commented file deps.
C20_MissingRootIsFatal ==
    /\ [](res_pc = "extracted" => ~RootMissing)
    /\ [](res_pc = "failed" => res_error # "none" /\ build_tree = NoTree)
    /\ [][/\ (res_pc = "commented" /\ RootMissing) => res_pc' = "failed"
          /\ res_pc = "symbols" /\ sym_pc = "done" =>
                /\ res_pc' = "file_deps"
                /\ res_error' = "none"
                /\ deps_not_found' = Unresolved]_vars

\* the run has failed at the extraction for a root symbol nobody defines,
\* after it went past a symbol dependency nobody defines
C20_Witness ==
    /\ res_pc = "failed"
    /\ RootMissing
    /\ deps_not_found # {}
    /\ \A f \in AnalysedFiles : f.mo_commented_file_deps = {}

-----------------------------------------------------------------------------
(* Claims about the build tree, checked under SpecTree *)

\* the source tree the build tree is extracted from
SourceTree == tree_of(all_analysed_files)

\* extract_sub_tree has returned the sub-tree of the target's file
Extracted == res_pc = "extracted" /\ target # NoTarget

\* the files that can be reached from 'root' along file_deps, going only
\* through files of the tree: the ends of the dependency paths from 'root'
Reachable(tree, root) ==
    {path[Len(path)] :
        path \in {p \in UNION {[1..n -> DOMAIN tree] : n \in 1..Cardinality(DOMAIN tree)} :
                     /\ p[1] = root
                     /\ \A i \in 1..(Len(p) - 1) : p[i + 1] \in tree[p[i]].file_deps}}

\* C13: for every node of the sub-tree extract_sub_tree returns, each of its
\* file_deps is a node of the sub-tree or is in 'missing'; 'missing' holds
\* exactly the file_deps of the nodes that the source tree does not hold;
\* and the extraction for a target in the symbol table always returns.
C13_SubTreeSound ==
    /\ [](Extracted =>
            /\ \A key \in DOMAIN build_tree :
                  \A file_dep \in build_tree[key].file_deps :
                      file_dep \in DOMAIN build_tree \/ file_dep \in missing
            /\ missing = UNION {build_tree[key].file_deps \ DOMAIN SourceTree :
                                  key \in DOMAIN build_tree})
    /\ [][(res_pc = "commented" /\ target \in DOMAIN symbols) => res_pc' = "extracted"]_vars

\* a sub-tree of two files was extracted, one of which depends on a file the
\* source tree does not hold
C13_Witness ==
    /\ Extracted
    /\ Cardinality(DOMAIN build_tree) = 2
    /\ missing = {GoneSource}
    /\ symbols[target] \in DOMAIN build_tree
    /\ GoneSource \notin build_tree[symbols[target]].file_deps

\* C14: the sub-tree extract_sub_tree returns holds exactly the files
\* reachable from the root file along file_deps through files of the source
\* tree, each with the AnalysedFile the source tree has for it.
C14_SubTreeIsReachableSet ==
    Extracted =>
        /\ DOMAIN build_tree = Reachable(SourceTree, symbols[target])
        /\ \A key \in DOMAIN build_tree : build_tree[key] = SourceTree[key]

\* a sub-tree of two files that depend on each other was extracted, without
\* the third file, which depends on the root but is not reachable from it
C14_Witness ==
    /\ Extracted
    /\ Cardinality(DOMAIN build_tree) = 2
    /\ \E other \in DOMAIN SourceTree \ DOMAIN build_tree :
          symbols[target] \in SourceTree[other].file_deps
    /\ \E key \in DOMAIN build_tree : symbols[target] \in build_tree[key].file_deps

\* the files of the unreferenced dependencies that the symbol table resolves
unreferenced_files == {symbols[s] : s \in ToSet(unreferenced_deps) \cap DOMAIN symbols}

-----------------------------------------------------------------------------
(* Claims about the waves and the compilation table, checked under Spec *)

\* the dependency chains of n Fortran files of the build tree
Chains(n) ==
    {p \in [1..n -> FortranFiles] : \A i \in 1..(n - 1) : p[i + 1] \in file_deps[p[i]]}

\* no Fortran file depends on itself through others: a chain that is longer
\* than the number of files would have to come back to a file
AcyclicDeps == Chains(Cardinality(FortranFiles) + 1) = {}

\* every Fortran dependency is a file of the build tree
AllPresent ==
    \A af \in FortranFiles : \A dep \in file_deps[af] :
        dep.suffix = ".f90" => dep \in FortranFiles

\* the number of files on the longest dependency chain that starts at af
ChainLen(af) ==
    CHOOSE n \in 1..Cardinality(FortranFiles) :
        /\ \E p \in Chains(n) : p[1] = af
        /\ \A m \in (n + 1)..Cardinality(FortranFiles) : ~\E p \in Chains(m) : p[1] = af

\* the largest wave of the Fortran file_deps of af, 0 if it has none
LargestDepWave(af) ==
    LET waves == {wave_of[dep] : dep \in file_deps[af] \cap FortranFiles} \cup {0}
    IN  CHOOSE w \in waves : \A v \in waves : v <= w

\* C17: in a build tree whose Fortran dependencies are acyclic and all
\* present, every file is handed to the compiler in wave 1 + the largest
\* wave of its Fortran file_deps (wave 1 if it has none), which is the
\* number of files on the longest dependency chain from it; and a run that
\* ends without an error has taken as many passes as the longest chain of
\* the tree has files.
C17_FewestWaves ==
    (AcyclicDeps /\ AllPresent) =>
        /\ \A af \in DOMAIN wave_of :
              /\ file_deps[af] \cap FortranFiles \subseteq DOMAIN wave_of
              /\ wave_of[af] = 1 + LargestDepWave(af)
              /\ wave_of[af] = ChainLen(af)
        /\ pc = "done" =>
              /\ DOMAIN wave_of = FortranFiles
              /\ \E af \in FortranFiles : pass = ChainLen(af)
              /\ \A af \in FortranFiles : ChainLen(af) <= pass

\* a run of CompileFortran has ended in two waves: one file depends on the
\* two others, which went in the first wave together
C17_Witness ==
    /\ pc = "done"
    /\ driver = "CompileFortran"
    /\ AcyclicDeps /\ AllPresent
    /\ pass = 2
    /\ \E af \in FortranFiles :
          /\ FortranFiles \ {af} \subseteq file_deps[af]
          /\ wave_of[af] = 2
          /\ \A dep \in FortranFiles \ {af} : wave_of[dep] = 1

\* C18: in a run of CompileFortran the compilation table is not written
\* while waves are compiled and not when the run fails, so it is then as
\* the run found it; a run that ends without an error has written it once,
\* in the step of its last wave, and the table then holds one record for
\* every file of the run, that of the file's CompiledFile.
C18_TableWrittenOnceAtEnd ==
    /\ []((driver = "CompileFortran" /\ pc \in {"compiling", "failed"}) =>
            /\ csv_writes = 0
            /\ compilation_csv = csv_at_start)
    /\ []((driver = "CompileFortran" /\ pc = "done") =>
            /\ csv_writes = 1
            /\ compilation_csv.exists
            /\ {row.input_fpath : row \in compilation_csv.rows} = FortranFiles
            /\ Cardinality(compilation_csv.rows) = Cardinality(FortranFiles)
            /\ read_compile_result = compiled)
    /\ [][(driver = "CompileFortran" /\ csv_writes' # csv_writes /\ csv_writes' # 0) =>
            (pc = "compiling" /\ pc' = "done" /\ to_compile' = {})]_vars

\* a run has ended without an error and written the table, and the next
\* run, after an edit, has failed in a wave and left that table as it was
C18_Witness ==
    /\ driver = "CompileFortran"
    /\ pc = "failed"
    /\ runs = 2
    /\ prev_ok
    /\ pass >= 1
    /\ csv_at_start.exists
    /\ Cardinality(csv_at_start.rows) = Cardinality(FortranFiles)
    /\ compilation_csv = csv_at_start

-----------------------------------------------------------------------------
(* Claims about analysis errors, checked under SpecAnalysis *)

\* the files this run has an AnalysedFile for from the analysers
AnalysedPaths == {pu.fpath : pu \in ToSet(new_program_units)}

\* C19: a result that is an exception is put with the exceptions and changes
\* nothing else: the phase stays where it is, the other files stay handed
\* out, and what was analysed and written stays.  When the analysis phase
\* ends, every file that was to be analysed has got exactly one result, an
\* AnalysedFile, an empty file or an exception, whatever the others got,
\* and every AnalysedFile has its row in the table on disk.
C19_ErrorsDoNotStopAnalysis ==
    /\ [](an_pc = "done" =>
            /\ ToAnalysePaths = AnalysedPaths \cup an_empty \cup an_exceptions
            /\ AnalysedPaths \cap an_empty = {}
            /\ AnalysedPaths \cap an_exceptions = {}
            /\ an_empty \cap an_exceptions = {}
            /\ \A pu \in ToSet(new_program_units) : <<pu.fpath, pu.file_hash>> \in OnDisk)
    /\ [][(an_exceptions' # an_exceptions /\ an_exceptions \subseteq an_exceptions') =>
            /\ an_pc' = an_pc
            /\ an_pending' \subseteq an_pending
            /\ Cardinality(an_pending') = Cardinality(an_pending) - 1
            /\ new_program_units' = new_program_units
            /\ analysis_csv' = analysis_csv
            /\ an_buffer' = an_buffer]_vars

\* the analysis phase has ended with an exception for a Fortran file and
\* with the analysis of another Fortran file and of the C file
C19_Witness ==
    /\ an_pc = "done"
    /\ \E p \in an_exceptions : path_suffix(p) = F90
    /\ \E p \in AnalysedPaths : path_suffix(p) = F90
    /\ FileH \in AnalysedPaths
    /\ <<FileH, latest_file_hashes[FileH]>> \in OnDisk

-----------------------------------------------------------------------------
(* Claims about the files of a wave, checked under Spec *)

\* a pass of the compile loop is taken in this step
PassTaken == pc = "compiling" /\ pass' = pass + 1

\* the files that remain to be compiled in this run
Remaining == to_compile \ DOMAIN compiled

\* the remaining files all of whose Fortran file_deps were compiled in
\* earlier passes of this run
Ready ==
    {af \in Remaining :
        \A dep \in file_deps[af] : dep.suffix = ".f90" => dep \in DOMAIN compiled}

\* the files handed to the compiler in the given pass
HandedOut(waves, n) == {af \in DOMAIN waves : waves[af] = n}

\* C26: in each pass the files handed to the compiler are exactly the
\* remaining files all of whose Fortran file_deps were compiled in earlier
\* passes of this run.
C26_WaveIsReadySet ==
    [][PassTaken => HandedOut(wave_of', pass') = Ready]_vars

\* a first wave of two files has been handed out while the third file, which
\* depends on one of them, was held back
C26_Witness ==
    /\ pass = 1
    /\ pc = "compiling"
    /\ Cardinality(HandedOut(wave_of, 1)) = 2
    /\ \E af \in Remaining : file_deps[af] \cap HandedOut(wave_of, 1) # {}

\* C30: a remaining file whose uncompiled file_deps all have a suffix other
\* than .f90 is handed to the compiler in the pass, whether or not such a
\* dependency is a file of the build tree; and the report of a pass in which
\* nothing is ready names only .f90 dependencies.
C30_OnlyFortranDepsGate ==
    /\ [][PassTaken =>
            \A af \in Remaining :
                (\A dep \in file_deps[af] \ DOMAIN compiled : dep.suffix # ".f90")
                    => (af \in DOMAIN wave_of' /\ wave_of'[af] = pass')]_vars
    /\ [](\A dep \in error.deps : dep.suffix = ".f90")

\* CompileFortran has handed out, in the first wave, a file that depends on
\* the C file, which is never compiled here, and on nothing else
C30_Witness ==
    /\ driver = "CompileFortran"
    /\ pass = 1
    /\ \E af \in HandedOut(wave_of, 1) : file_deps[af] = {CFile}
    /\ CFile \notin DOMAIN compiled

-----------------------------------------------------------------------------
(* Claims about the module hashes and the errors of a wave, under Spec *)

\* the modules defined by the given files
ModulesOf(afs) == UNION {module_defs(af) : af \in afs}

\* C27: in CompileFortran the module-hash map changes only at the start of a
\* run, where it is emptied, and at the end of a pass without errors, where
\* exactly the hashes of the modules of that wave are added; every file of a
\* wave records the hashes of its module dependencies as they were in the
\* map before the pass, which holds exactly the modules of the files
\* compiled in earlier waves, so none of the modules of its own wave.
C27_ModHashesFrozenDuringWave ==
    /\ [](driver = "CompileFortran" =>
            DOMAIN mod_hashes = ModulesOf(DOMAIN compiled))
    /\ [][driver = "CompileFortran" /\ mod_hashes' # mod_hashes =>
            \/ mod_hashes' = NoMap /\ runs' = runs + 1
            \/ /\ PassTaken
               /\ pc' \in {"compiling", "done"}
               /\ DOMAIN mod_hashes' =
                    DOMAIN mod_hashes \cup ModulesOf(HandedOut(wave_of', pass'))
               /\ \A m \in DOMAIN mod_hashes : mod_hashes'[m] = mod_hashes[m]]_vars
    /\ [][driver = "CompileFortran" /\ PassTaken =>
            \A af \in HandedOut(wave_of', pass') :
                /\ module_defs(af) \cap DOMAIN mod_hashes = {}
                /\ \A cf \in results'[af].cf :
                      cf.module_deps_hashes =
                        [m \in module_deps(af) |-> mod_hashes[m]]]_vars

\* a file of the second wave has recorded the hash of a module that the
\* first wave produced
C27_Witness ==
    /\ driver = "CompileFortran"
    /\ pass = 2
    /\ \E af \in HandedOut(wave_of, 2) : \E dep \in HandedOut(wave_of, 1) :
          /\ results[af].type = "CompiledFile"
          /\ \E cf \in results[af].cf :
                module_defs(dep) \subseteq DOMAIN cf.module_deps_hashes

\* the results of the given files that are errors
Errors(res, afs) == {af \in afs : res[af].type # "CompiledFile"}

\* C28: when a file of a wave returns an error, every file of that wave has
\* been processed and has its result, the run fails in that step with all the
\* errors of the wave reported together, and no file is handed out or
\* compiled in that run afterwards.
C28_WaveFinishesBeforeFailure ==
    /\ [][PassTaken /\ Ready # {} =>
            /\ Ready \subseteq DOMAIN results'
            /\ Errors(results', Ready) # {} =>
                  /\ pc' = "failed"
                  /\ error'.kind = "errors"
                  /\ error'.files = Errors(results', Ready)
                  /\ compiled' = compiled]_vars
    /\ [][pc = "failed" /\ runs' = runs => UNCHANGED <<wave_of, compiled, results>>]_vars

\* a wave of two files has failed: one file returned an error, the other was
\* processed all the same and has its result
C28_Witness ==
    /\ pc = "failed"
    /\ error.kind = "errors"
    /\ Cardinality(HandedOut(wave_of, pass)) = 2
    /\ Cardinality(error.files) = 1
    /\ \E af \in HandedOut(wave_of, pass) : results[af].type = "CompiledFile"

\* C29: in CompileFortran every failure of a worker is an error value in the
\* results, carrying the path of the file it was compiling, and no failure
\* leaves the worker as an exception.
C29_WorkerFailuresAreWrappedValues ==
    driver = "CompileFortran" =>
        /\ error.kind # "KeyError"
        /\ \A af \in DOMAIN results :
              results[af].type # "CompiledFile" => results[af].fpath = {af}

-----------------------------------------------------------------------------
(* Claims about the letter case of symbol names, checked under SpecCase *)

\* two letters that are the same but for their case
SameLetter(c, d) == c = d \/ {c, d} = {"f", "F"} \/ {c, d} = {"g", "G"}

\* two names that are the same but for the case of their letters
SameName(n, m) ==
    Len(n) = Len(m) /\ \A i \in 1..Len(n) : SameLetter(n[i], m[i])

\* the analysed file of a path
FileOf(p) == CHOOSE af \in ToSet(all_analysed_files) : af.fpath = p

\* C23: once the symbol dependencies are resolved, a file that uses a name
\* has among its file dependencies a file that defines the same name in some
\* letter case, whenever a file defines it; and once the symbol table is made,
\* two files that define names differing at most in case have given a
\* duplicate report that names both files.
C23_NamesCompareWithoutCase ==
    /\ res_pc = "file_deps" =>
          \A use \in src_deps :
              (\E def \in src_defs : SameName(def[2], use[2])) =>
                  \E def \in src_defs :
                      /\ SameName(def[2], use[2])
                      /\ def[1] \in FileOf(use[1]).file_deps
    /\ sym_pc = "done" =>
          \A d1 \in src_defs, d2 \in src_defs :
              (d1[1] # d2[1] /\ SameName(d1[2], d2[2])) =>
                  \E dup \in duplicates :
                      /\ SameName(dup.symbol, d1[2])
                      /\ {dup.fpath, dup.found_in} = {d1[1], d2[1]}

\* a.f90 defines F, b.f90 defines f and uses f: the table has reported
\* the duplicate and b.f90 depends on a.f90
C23_Witness ==
    /\ res_pc = "file_deps"
    /\ src_defs = {<<FileA, <<"F">> >>, <<FileB, <<"f">> >>}
    /\ src_deps = {<<FileB, <<"f">> >>}
    /\ duplicates # {}
    /\ FileA \in FileOf(FileB).file_deps

-----------------------------------------------------------------------------
(* Claims about the archive step, checked under SpecArchive *)

\* the place of an object file in the sorted order
Rank(object) == CHOOSE i \in 1..Len(ObjectNames) : ObjectNames[i] = object

\* sorted(objects)
SortedObjects(objects) ==
    CHOOSE seq \in Orders(ToSet(objects)) :
        \A i \in 1..Len(seq), j \in 1..Len(seq) : i < j => Rank(seq[i]) < Rank(seq[j])

\* C24: when run has ended it has invoked exactly one command, the archiver
\* followed by 'cr', the archive path and the object paths in sorted order,
\* and when it has ended without an error the output collection holds the
\* archive path.
C24_OneSortedArchiveCommand ==
    ar_pc \in {"done", "failed"} =>
        /\ Len(ar_commands) = 1
        /\ ar_commands[1] =
              <<ar_archiver, "cr", substitute(ar_output_fpath)>>
                  \o SortedObjects(ar_objects)
        /\ ar_pc = "done" => ar_store = <<substitute(ar_output_fpath)>>

-----------------------------------------------------------------------------
(* Claims about the choice of the Fortran preprocessor, under SpecFpp *)

\* FPP is set and names a tool
FppNamesTool == fpp_env.set /\ fpp_env.words # <<>>

\* C25: when FPP names a tool, get_fortran_preprocessor returns that tool;
\* otherwise it returns fpp if fpp is on PATH, otherwise cpp with the flags
\* -traditional-cpp and -P if cpp is on PATH, and otherwise it fails; the
\* flags it returns always contain -P.
C25_PreprocessorChoice ==
    fpp_pc = "done" =>
        /\ FppNamesTool =>
              ~fpp_result.raised /\ fpp_result.fpp = Head(fpp_env.words)
        /\ (~FppNamesTool /\ fpp_on_path) =>
              ~fpp_result.raised /\ fpp_result.fpp = "fpp"
        /\ (~FppNamesTool /\ ~fpp_on_path /\ cpp_on_path) =>
              /\ ~fpp_result.raised
              /\ fpp_result.fpp = "cpp"
              /\ fpp_result.fpp_flags = <<"-traditional-cpp", "-P">>
        /\ (~FppNamesTool /\ ~fpp_on_path /\ ~cpp_on_path) => fpp_result.raised
        /\ ~fpp_result.raised => "-P" \in ToSet(fpp_result.fpp_flags)

\* FPP names a tool with a flag other than -P, and -P was added to it
C25_Witness ==
    /\ fpp_pc = "done"
    /\ fpp_env = EnvValue(<<"mypp", "-DX">>)
    /\ fpp_result = [raised |-> FALSE, fpp |-> "mypp", fpp_flags |-> <<"-DX", "-P">>]

-----------------------------------------------------------------------------
(* Claims about the preprocessing phase, checked under SpecPreprocess *)

\* the phase has ended
PreprocessEnded == pp_pc \in {"done", "failed"}

\* the output of a file exists already and may be reused
Reusable(fpath) == pp_reuse /\ output_fpath_of(fpath) \in pp_existing

\* C21: a file that was processed had the preprocessor invoked for it unless
\* reuse is enabled and its output existed; the command invoked is the
\* preprocessor, the flags of the file, the input path and the output path;
\* and every result that is a path, of a file preprocessed or skipped, is the
\* output path of the file, a skipped file always having such a result.
C21_InvokedUnlessReusable ==
    PreprocessEnded =>
        /\ \A fpath \in pp_processed :
              /\ fpath \in DOMAIN pp_commands <=> ~Reusable(fpath)
              /\ fpath \in DOMAIN pp_commands =>
                    pp_commands[fpath] =
                        <<"fpp">> \o pp_common_flags
                            \o (IF fpath = "a.F90" THEN <<"-DA">> ELSE <<>>)
                            \o <<fpath, output_fpath_of(fpath)>>
        /\ \A fpath \in DOMAIN pp_results :
              /\ pp_results[fpath].type = "Path" =>
                    pp_results[fpath].value = output_fpath_of(fpath)
              /\ Reusable(fpath) => pp_results[fpath].type = "Path"
        /\ pp_pc = "done" =>
              /\ pp_processed = ToSet(pp_files)
              /\ DOMAIN pp_results = ToSet(pp_files)
              /\ pp_store = [i \in 1..Len(pp_files) |-> output_fpath_of(pp_files[i])]

\* pre_processor has ended well with reuse enabled: one file was skipped
\* because its output existed, another was preprocessed with its own flags
C21_Witness ==
    /\ pp_pc = "done"
    /\ pp_driver = "pre_processor"
    /\ pp_reuse
    /\ pp_files = <<"b.F90", "a.F90">>
    /\ pp_existing = {"build_output/b.f90"}
    /\ pp_common_flags = <<"-P">>
    /\ pp_commands =
          [fpath \in {"a.F90"} |-> <<"fpp", "-P", "-DA", "a.F90", "build_output/a.f90">>]

\* C22: when the phase has ended every file has been processed, whatever
\* failed before it; the failure of the preprocessor on a file is the result
\* of that file; and the error that ends the phase names exactly the files on
\* which the preprocessor failed.
C22_ErrorsCollectedAtEnd ==
    PreprocessEnded =>
        /\ pp_processed = ToSet(pp_files)
        /\ pp_error.files = pp_failed
        /\ \A fpath \in pp_failed :
              fpath \in DOMAIN pp_results /\ pp_results[fpath].type = "Exception"

-----------------------------------------------------------------------------
(* Claims about the progress of the compile loop, checked under Spec and   *)
(* SpecCompileFair                                                           *)

\* C31: a pass after which no more files are compiled than before, while
\* files remain, ends the compile phase as failed with an error reported; a
\* pass after which the loop goes on has made the remaining set smaller.
C31_NoProgressIsFatal ==
    /\ [][(PassTaken /\ Remaining # {} /\ DOMAIN compiled' = DOMAIN compiled) =>
            (pc' = "failed" /\ error'.kind # "none")]_vars
    /\ [][(PassTaken /\ pc' = "compiling") =>
            (to_compile' \ DOMAIN compiled' # Remaining
                /\ to_compile' \ DOMAIN compiled' \subseteq Remaining)]_vars

\* two files that depend on each other remain after the first wave, and
\* the second pass has ended the phase
C31_Witness ==
    /\ pc = "failed"
    /\ pass = 2
    /\ error.kind = "unfulfilled dependencies"
    /\ Cardinality(DOMAIN compiled) = 1
    /\ Cardinality(Remaining) = 2

\* C32: within a run a file is handed out at most once: the files of a wave
\* were in no earlier wave and are not compiled yet, a compiled file stays
\* compiled with the same record and is not among the remaining files, and
\* a failed run stays failed.
C32_HandedOutAtMostOnce ==
    /\ [][PassTaken =>
            /\ HandedOut(wave_of', pass') \cap DOMAIN wave_of = {}
            /\ HandedOut(wave_of', pass') \cap DOMAIN compiled = {}]_vars
    /\ [][runs' = runs =>
            /\ \A af \in DOMAIN compiled :
                  af \in DOMAIN compiled' /\ compiled'[af] = compiled[af]
            /\ pc = "failed" => pc' = "failed"]_vars
    /\ [](pc \in {"compiling", "done", "failed"} =>
            /\ DOMAIN compiled \cap Remaining = {}
            /\ DOMAIN compiled \subseteq DOMAIN wave_of)

\* a run has ended well in three waves of one file each
C32_Witness ==
    /\ pc = "done"
    /\ pass = 3
    /\ \A n \in 1..3 : Cardinality(HandedOut(wave_of, n)) = 1

\* C35: a compile phase that has started comes to an end, with every file
\* compiled or with a failure; on the way every pass either fails or leaves
\* fewer files to compile, so there are never more passes than files.
C35_CompileTerminates ==
    /\ (pc = "compiling") ~> (pc \in {"done", "failed"})
    /\ [][PassTaken =>
            \/ pc' = "failed"
            \/ Cardinality(to_compile' \ DOMAIN compiled') < Cardinality(Remaining)]_vars
    /\ [][pass' <= Cardinality(FortranFiles)]_vars
    /\ [](pc = "done" => DOMAIN compiled = FortranFiles)

\* a phase has failed in its third pass, after two waves were compiled
C35_Witness ==
    /\ pc = "failed"
    /\ pass = 3
    /\ Cardinality(DOMAIN compiled) = 2

TablePaths == {row.input_fpath : row \in compilation_csv.rows}

\* C39: when the compile phase has ended well there is a record for every
\* Fortran file of the build tree and for no other file, each under the path
\* of its own file with the object path of that file, and the table that
\* CompileFortran has written has one row for each of these files.
C39_OneRecordPerFile ==
    pc = "done" =>
        /\ DOMAIN compiled = FortranFiles
        /\ \A af \in DOMAIN compiled :
              /\ compiled[af].output_fpath = Path(af.stem, ".o")
              /\ driver = "CompileFortran" => compiled[af].input_fpath = af
              /\ driver = "Fab" => compiled[af].analysed_file = af
        /\ driver = "CompileFortran" =>
              /\ Cardinality(compilation_csv.rows) = Cardinality(FortranFiles)
              /\ Cardinality(TablePaths) = Cardinality(FortranFiles)

\* Fab.compile_fortran has compiled the three files, one of which depends on
\* the C file, for which there is no record
C39_Witness ==
    /\ pc = "done"
    /\ driver = "Fab"
    /\ Cardinality(DOMAIN compiled) = 3
    /\ \E af \in FortranFiles : CFile \in file_deps[af]
    /\ CFile \notin DOMAIN compiled

-----------------------------------------------------------------------------
(* The walk of extract_sub_tree, checked under SpecTree *)

\* the walk extract_sub_tree makes for the target's file, lines 148-151
TargetWalk ==
    _extract_sub_tree(SourceTree, symbols[target],
                      [dst_tree |-> NoTree, missing |-> {}, copied |-> <<>>])

\* C36: the extraction for a target in the symbol table returns, whatever
\* the file_deps of the source tree are, and the walk it has made has put
\* every file reachable from the root in the result once and no other file:
\* no key was assigned a second time.
C36_WalkCopiesEachFileOnce ==
    /\ [][(res_pc = "commented" /\ target \in DOMAIN symbols) =>
            (res_pc' = "extracted" /\ DOMAIN build_tree' # {})]_vars
    /\ [](Extracted =>
            /\ TargetWalk.dst_tree = build_tree
            /\ ToSet(TargetWalk.copied) = Reachable(SourceTree, symbols[target])
            /\ Len(TargetWalk.copied) = Cardinality(DOMAIN build_tree)
            /\ \A i, j \in 1..Len(TargetWalk.copied) :
                  TargetWalk.copied[i] = TargetWalk.copied[j] => i = j)

\* the sub-tree of a root that depends on itself and on a file that depends
\* back on the root was extracted
C36_Witness ==
    /\ Extracted
    /\ symbols[target] \in build_tree[symbols[target]].file_deps
    /\ \E key \in DOMAIN build_tree \ {symbols[target]} :
          /\ key \in build_tree[symbols[target]].file_deps
          /\ symbols[target] \in build_tree[key].file_deps

-----------------------------------------------------------------------------
(* The rows of the analysis table within a run, checked under SpecAnalysis *)

\* the analysed files of the rows of a table
RowFiles(rows) == [i \in 1..Len(rows) |-> from_row(rows[i]).value]

\* the paths of the rows of a table
RowPaths(rows) == {RowFiles(rows)[i].fpath : i \in 1..Len(rows)}

\* the current files for which the table found by this run has a row with
\* their current hash
SameHashPaths ==
    {p \in DOMAIN latest_file_hashes :
        \E prev \in PrevRows : prev.fpath = p /\ prev.file_hash = latest_file_hashes[p]}

IsPrefix(s, t) == Len(s) <= Len(t) /\ SubSeq(t, 1, Len(s)) = s

\* C33: when analysis_progress has written and flushed the start of the
\* progress file, the table on disk holds one row for every current file
\* whose earlier row has the current hash, with the analysis that row held,
\* and no other row; from then on, until the run ends or is halted, the
\* table on disk only grows at its end.
C33_RewrittenThenAppendOnly ==
    /\ [][(an_pc = "opened" /\ an_pc' = "fortran") =>
            /\ RowFiles(analysis_csv'.rows) = unchanged
            /\ RowPaths(analysis_csv'.rows) = SameHashPaths
            /\ Len(analysis_csv'.rows) = Cardinality(SameHashPaths)]_vars
    /\ [][(an_pc \in {"fortran", "c"}) => IsPrefix(analysis_csv.rows, analysis_csv'.rows)]_vars
    /\ [](an_pc \in {"fortran", "c", "done"} =>
            IsPrefix(unchanged, RowFiles(analysis_csv.rows)))

\* a run that found rows of a file that is gone and of a file with another
\* hash has ended with the row of an unchanged file followed by a new row
C33_Witness ==
    /\ an_pc = "done"
    /\ unchanged # <<>>
    /\ Len(analysis_csv.rows) > Len(unchanged)
    /\ \E prev \in PrevRows : prev.fpath \notin DOMAIN latest_file_hashes
    /\ \E prev \in PrevRows :
          /\ prev.fpath \in DOMAIN latest_file_hashes
          /\ prev.file_hash # latest_file_hashes[prev.fpath]

\* the files whose analysis gave no AnalysedFile in this run
NotAnalysed == an_empty \cup an_exceptions

\* C40: a file whose analysis gave EmptySourceFile or an exception has no
\* row in the progress file, written or buffered, and is not among the
\* analysed files of the run; the next run puts it in 'to_analyse' again,
\* its hash being the same; and when the run is done every AnalysedFile
\* received has exactly one row in the table and every row of the table is
\* that of an unchanged or a received file.
C40_NoRowWithoutAnalysis ==
    /\ [](an_pc \in {"fortran", "c", "done"} =>
            /\ NotAnalysed \cap RowPaths(analysis_csv.rows \o an_buffer) = {}
            /\ NotAnalysed \cap {pu.fpath : pu \in ToSet(unchanged) \cup ToSet(new_program_units)} = {})
    /\ [](an_pc = "done" =>
            /\ RowFiles(analysis_csv.rows) = unchanged \o new_program_units
            /\ \A pu \in ToSet(new_program_units) :
                  Cardinality({i \in 1..Len(analysis_csv.rows) :
                                  RowFiles(analysis_csv.rows)[i].fpath = pu.fpath}) = 1)
    /\ [][(an_pc = "done" /\ an_pc' = "opened") =>
            NotAnalysed \subseteq {hashed_file.fpath : hashed_file \in ToSet(to_analyse')}]_vars

\* the second run, which follows a run that has ended, has analysed again a
\* file with an unchanged hash for which the first run has written no row,
\* and has found it empty; the first run has analysed another file with success
C40_Witness ==
    /\ an_runs = 2
    /\ an_pc = "done"
    /\ at_crash = NoCrash
    /\ an_empty # {}
    /\ unchanged # <<>>
    /\ RowPaths(csv_at_load) \cap an_empty = {}
    /\ RowPaths(csv_at_load) = UnchangedPaths

-----------------------------------------------------------------------------
(* The order of the analysis results, checked under SpecSymbols *)

\* the files of a dict with the given suffix, as a set
OfType(files, suffix_) == {f \in ToSet(files) : path_suffix(f.fpath) = suffix_}

\* The dicts Fab.run (line 275) can build from the same analysis results of a
\* build that analyses every file: analysed_fortran, then analysed_c, each in
\* the order in which imap_unordered has yielded the results of the workers.
CompletionOrders(files) ==
    {fortran \o c : fortran \in Orders(OfType(files, F90)), c \in Orders(OfType(files, DotC))}

\* C37: the symbol table generated from the analysis results is the one
\* generated from the same results in every other order in which the
\* workers can complete.
C37_SameTableInEveryOrder ==
    (sym_pc = "done" /\ all_analysed_files \in CompletionOrders(all_analysed_files)) =>
        \A other \in CompletionOrders(all_analysed_files) :
            gen_symbol_table(other).symbols = symbols

-----------------------------------------------------------------------------
(* The order of the steps of a run, checked under SpecRun *)

\* the place of a step in Fab.run
PhaseIndex(phase) == CHOOSE i \in 1..Len(Phases) : Phases[i] = phase

\* every item of the step has returned
Finished(phase) ==
    \A item \in phase_items(phase, run_input) : <<phase, item>> \in run_events.returned

\* C34: whenever an item of a step has been started, every item of every
\* earlier step has returned: no file is analysed before every file is
\* preprocessed and hashed, the symbol table is generated after the last
\* analysis result, no file is compiled before the build tree is extracted
\* and the unreferenced dependencies are added, and no file of a compile
\* pass is started before every file of the pass before it has returned.
C34_PhasesAreBarriers ==
    \A e \in run_events.started :
        \A i \in 1..(PhaseIndex(e[1]) - 1) : Finished(Phases[i])

\* the file of the second compile pass is with a worker, in a run that has
\* analysed every file: the sixteen items of the steps before have returned
C34_Witness ==
    /\ run_pc = "compile_pass_2"
    /\ FileB \in pool.running
    /\ run_input = SourceFiles
    /\ Cardinality(run_events.returned) = 16

====
